---- MODULE Spec2Model ----
(***************************************************************************)
(* Model of sql-infer: the parameter rewriter (sql-infer-cli/src/utils.rs  *)
(* and the older src/query_converter.rs), the input naming done by         *)
(* `Generate::run`, the provenance resolver (sql-infer-core/src/parser.rs), *)
(* the provenance expression type `Column`, the mapping of driver type     *)
(* names to SqlType, and the inference of sql-infer-core/src/inference.rs  *)
(* with its passes (inference/nullability.rs, inference/datatypes.rs).     *)
(*                                                                         *)
(* Text is a sequence of one-character strings; byte offsets of the Rust   *)
(* code are 0-based, sequence positions here are 1-based (offset + 1).     *)
(* Option<T> is a sequence of length 0 (None) or 1 (Some).                 *)
(***************************************************************************)
EXTENDS Integers, Sequences, FiniteSets, TLC

VARIABLES
    query,        \* the text of the query file being processed
    parsed,       \* Option<ParametrizedQuery>: result of parse_into_postgres
    prepared,     \* Option<PreparedQuery>: result of prepare_psycopg
    files,        \* Generate::run: names of the queries pushed so far
    check_result, \* Generate::run: Option<Result<QueryTypes, error>>
    definition,   \* Generate::run: Option<QueryDefinition> given to the emitter
    statement,    \* Option<Statement>: the first statement of the parsed query
    fields,       \* Option<Result<HashMap<String, Column>, ParserError>>
    lhs,          \* Option<Column>: left operand of a comparison
    rhs,          \* Option<Column>: right operand of a comparison
    equal,        \* Option<bool>: result of lhs == rhs
    driver_type,  \* Option<PgTypeInfo>: a type description given by the driver
    core_sql_type,   \* Option<Result<SqlType>>: sql-infer-core's reading of it
    legacy_sql_type, \* Option<Result<SqlType>>: src/check_query.rs's reading
    pass_source,  \* update_with_info: Option<Column>, the provenance given
    pass_item,    \* update_with_info: Option<QueryItem>, the item refined
    updated,      \* update_with_info: Option<Result<(), error>>
    pool,         \* the database: what prepare and the catalog answer
    passes,       \* Passes::information_schema: the registered passes
    lookups,      \* the information_schema.columns queries issued, in order
    ast,          \* Option<Result<Vec<Statement>, error>>: what to_ast gives
    run,          \* check_statement: its position and local variables
    query_types   \* Option<Result<QueryTypes, error>> of check_statement

rewriter_vars == <<query, parsed, prepared>>

generate_vars == <<files, check_result, definition>>

parser_vars == <<statement, fields>>

column_vars == <<lhs, rhs, equal>>

sqltype_vars == <<driver_type, core_sql_type, legacy_sql_type>>

pass_vars == <<pass_source, pass_item, updated>>

infer_vars == <<pool, passes, lookups, ast, run, query_types>>

vars == <<query, parsed, prepared, files, check_result, definition,
          statement, fields, lhs, rhs, equal,
          driver_type, core_sql_type, legacy_sql_type, pass_source, pass_item, updated,
          pool, passes, lookups, ast, run, query_types>>

(***************************************************************************)
(* Bounds                                                                  *)
(***************************************************************************)
MaxLen == 5

(***************************************************************************)
(* Characters                                                              *)
(***************************************************************************)
QueryChars == {"'", "\"", ":", "a", "1", " ", "$"}

LowerCase ==
    {"a","b","c","d","e","f","g","h","i","j","k","l","m",
     "n","o","p","q","r","s","t","u","v","w","x","y","z"}

UpperCase ==
    {"A","B","C","D","E","F","G","H","I","J","K","L","M",
     "N","O","P","Q","R","S","T","U","V","W","X","Y","Z"}

Digits == <<"0","1","2","3","4","5","6","7","8","9">>

DigitSet == {Digits[i] : i \in 1..10}

WhiteSpace == {" ", "\t", "\n", "\r", "\f"}

\* first character class of the placeholder pattern: ([a-z]|[A-Z]|_)
IsIdentStart(c) == c \in LowerCase \cup UpperCase \cup {"_"}

\* repeated character class of the pattern: ([a-z]|[A-Z]|_|[0-9])*
IsIdentPart(c) == c \in LowerCase \cup UpperCase \cup {"_"} \cup DigitSet

Strings(chars, n) == UNION {[1..k -> chars] : k \in 0..n}

None == <<>>

Some(x) == <<x>>

IsSome(o) == Len(o) = 1

\* &text[from..to] with 0-based byte offsets, end exclusive
Slice(text, from, to) == SubSeq(text, from + 1, to)

(***************************************************************************)
(* sql-infer-cli/src/utils.rs: split_query                                 *)
(***************************************************************************)
\* the `for (idx, char) in query.char_indices()` loop; i is idx + 1
RECURSIVE split_query_loop(_, _, _, _, _, _)
split_query_loop(q, i, in_quotes, in_double_quotes, last, segs) ==
    IF i > Len(q) THEN Append(segs, Slice(q, last, Len(q)))
    ELSE IF q[i] = "'" THEN
        LET now_in == ~in_quotes
            end == IF now_in THEN i - 1 ELSE i
        IN  split_query_loop(q, i + 1, now_in, in_double_quotes, end,
                             Append(segs, Slice(q, last, end)))
    ELSE IF q[i] = "\"" THEN
        LET now_in == ~in_double_quotes
            end == IF now_in THEN i - 1 ELSE i
        IN  split_query_loop(q, i + 1, in_quotes, now_in, end,
                             Append(segs, Slice(q, last, end)))
    ELSE split_query_loop(q, i + 1, in_quotes, in_double_quotes, last, segs)

split_query(q) ==
    IF Len(q) > 0 /\ q[1] = "'"
    THEN split_query_loop(Tail(q), 1, FALSE, FALSE, 0, <<Slice(q, 0, 1)>>)
    ELSE split_query_loop(q, 1, FALSE, FALSE, 0, <<>>)

(***************************************************************************)
(* src/query_converter.rs: split_query (single quotes only)                *)
(***************************************************************************)
RECURSIVE query_converter_split_query_loop(_, _, _, _, _)
query_converter_split_query_loop(q, i, in_quotes, last, segs) ==
    IF i > Len(q) THEN Append(segs, Slice(q, last, Len(q)))
    ELSE IF q[i] = "'" THEN
        LET now_in == ~in_quotes
            end == IF now_in THEN i - 1 ELSE i
        IN  query_converter_split_query_loop(q, i + 1, now_in, end,
                                             Append(segs, Slice(q, last, end)))
    ELSE query_converter_split_query_loop(q, i + 1, in_quotes, last, segs)

query_converter_split_query(q) ==
    IF Len(q) > 0 /\ q[1] = "'"
    THEN query_converter_split_query_loop(Tail(q), 1, FALSE, 0, <<Slice(q, 0, 1)>>)
    ELSE query_converter_split_query_loop(q, 1, FALSE, 0, <<>>)

(***************************************************************************)
(* The placeholder pattern :([a-z]|[A-Z]|_)([a-z]|[A-Z]|_|[0-9])*          *)
(***************************************************************************)
\* a match of the pattern starts at position i of text
MatchesAt(text, i) ==
    /\ i + 1 <= Len(text)
    /\ text[i] = ":"
    /\ IsIdentStart(text[i + 1])

\* the greedy `*`: last position of the run of identifier characters from j
RECURSIVE IdentEnd(_, _)
IdentEnd(text, j) ==
    IF j + 1 <= Len(text) /\ IsIdentPart(text[j + 1])
    THEN IdentEnd(text, j + 1)
    ELSE j

\* placeholder.len(): the colon and the identifier
MatchLen(text, i) == IdentEnd(text, i + 1) - i + 1

\* str::trim
RECURSIVE TrimStart(_)
TrimStart(s) ==
    IF s # <<>> /\ Head(s) \in WhiteSpace THEN TrimStart(Tail(s)) ELSE s

RECURSIVE TrimEnd(_)
TrimEnd(s) ==
    IF s # <<>> /\ s[Len(s)] \in WhiteSpace
    THEN TrimEnd(SubSeq(s, 1, Len(s) - 1)) ELSE s

Trim(s) == TrimEnd(TrimStart(s))

EndsWithColon(s) == s # <<>> /\ s[Len(s)] = ":"

\* the cast test left out: every match is taken for a placeholder
is_cast_never(slice) == FALSE

\* utils.rs: query.get(..start).is_some_and(|slice| slice.trim().ends_with(":"))
is_cast(slice) == EndsWithColon(Trim(slice))

\* query_converter.rs: query.get(..start).is_some_and(|slice| slice.ends_with(":"))
query_converter_is_cast(slice) == EndsWithColon(slice)

\* params.iter().position(|param| param == param_name)
Position(params, name) ==
    IF \E k \in 1..Len(params) : params[k] = name
    THEN Some((CHOOSE k \in 1..Len(params) :
                  /\ params[k] = name
                  /\ \A j \in 1..(k - 1) : params[j] # name) - 1)
    ELSE None

\* the lookup left out: every occurrence is pushed as a new parameter
param_index_always_push(params, name) ==
    [params |-> Append(params, name), index |-> 1 + Len(params)]

\* 1 + position(..).unwrap_or_else(|| { params.push(name); params.len() - 1 })
param_index(params, name) ==
    LET pos == Position(params, name)
    IN  IF IsSome(pos)
        THEN [params |-> params, index |-> 1 + pos[1]]
        ELSE [params |-> Append(params, name), index |-> 1 + Len(params)]

\* format!("{n}") of an unsigned integer
RECURSIVE Decimal(_)
Decimal(n) ==
    IF n < 10 THEN <<Digits[n + 1]>>
    ELSE Decimal(n \div 10) \o <<Digits[(n % 10) + 1]>>

(***************************************************************************)
(* The rewriting loop shared (textually duplicated) by parse_into_postgres *)
(* and prepare_psycopg.  acc = [raw_query, params, matches]; `matches` is  *)
(* a history of the matches the loop looked at: the offset of the match in *)
(* the whole input, the name, and the `$k` emitted (0 when the match was   *)
(* skipped by the cast test).                                              *)
(***************************************************************************)
\* `for matches in placeholder_pattern.captures_iter(query)` over one even
\* segment and the trailing `postgres_query += &query[head..]`
RECURSIVE captures_loop(_, _, _, _, _, _)
captures_loop(seg, i, head, legacy, off, acc) ==
    IF i > Len(seg)
    THEN [acc EXCEPT !.raw_query = @ \o Slice(seg, head, Len(seg))]
    ELSE IF ~MatchesAt(seg, i)
    THEN captures_loop(seg, i + 1, head, legacy, off, acc)
    ELSE
        LET start == i - 1
            len == MatchLen(seg, i)
            name == SubSeq(seg, i + 1, i + len - 1)
            cast == IF legacy THEN query_converter_is_cast(Slice(seg, 0, start))
                              ELSE is_cast(Slice(seg, 0, start))
        IN  IF cast
            THEN captures_loop(seg, i + len, head, legacy, off,
                    [acc EXCEPT !.matches = Append(@,
                        [pos |-> off + start, name |-> name, index |-> 0])])
            ELSE
                LET pi == param_index(acc.params, name)
                IN  captures_loop(seg, i + len, start + len, legacy, off,
                        [raw_query |-> acc.raw_query \o Slice(seg, head, start)
                                         \o <<"$">> \o Decimal(pi.index),
                         params |-> pi.params,
                         matches |-> Append(acc.matches,
                            [pos |-> off + start, name |-> name,
                             index |-> pi.index])])

\* `for (id, query) in split_query.into_iter().enumerate()`; id is 0-based
RECURSIVE segments_loop(_, _, _, _, _)
segments_loop(segs, id, legacy, off, acc) ==
    IF id >= Len(segs) THEN acc
    ELSE
        LET seg == segs[id + 1]
        IN  IF id % 2 = 1
            THEN segments_loop(segs, id + 1, legacy, off + Len(seg),
                    [acc EXCEPT !.raw_query = @ \o seg])
            ELSE segments_loop(segs, id + 1, legacy, off + Len(seg),
                    captures_loop(seg, 1, 0, legacy, off, acc))

EmptyRewrite == [raw_query |-> <<>>, params |-> <<>>, matches |-> <<>>]

\* sql-infer-cli/src/utils.rs
parse_into_postgres(q) ==
    segments_loop(split_query(q), 0, FALSE, 0, EmptyRewrite)

\* src/query_converter.rs
prepare_psycopg(q) ==
    segments_loop(query_converter_split_query(q), 0, TRUE, 0, EmptyRewrite)

(***************************************************************************)
(* The rewriter as a state machine: a query text is read, then rewritten   *)
(* by either function.                                                     *)
(***************************************************************************)
GenerateIdle ==
    /\ files = {}
    /\ check_result = None
    /\ definition = None

ParserIdle ==
    /\ statement = None
    /\ fields = None

ColumnIdle ==
    /\ lhs = None
    /\ rhs = None
    /\ equal = None

SqlTypeIdle ==
    /\ driver_type = None
    /\ core_sql_type = None
    /\ legacy_sql_type = None

PassIdle ==
    /\ pass_source = None
    /\ pass_item = None
    /\ updated = None

InferIdle ==
    /\ pool = None
    /\ passes = <<>>
    /\ lookups = <<>>
    /\ ast = None
    /\ run = None
    /\ query_types = None

Init ==
    /\ query \in Strings(QueryChars, MaxLen)
    /\ parsed = None
    /\ prepared = None
    /\ GenerateIdle
    /\ ParserIdle
    /\ ColumnIdle
    /\ SqlTypeIdle
    /\ PassIdle
    /\ InferIdle

ParseIntoPostgres ==
    /\ parsed = None
    /\ parsed' = Some(parse_into_postgres(query))
    /\ UNCHANGED <<query, prepared, generate_vars, parser_vars, column_vars,
                 sqltype_vars, pass_vars, infer_vars>>

PreparePsycopg ==
    /\ prepared = None
    /\ prepared' = Some(prepare_psycopg(query))
    /\ UNCHANGED <<query, parsed, generate_vars, parser_vars, column_vars,
                 sqltype_vars, pass_vars, infer_vars>>

Next == ParseIntoPostgres \/ PreparePsycopg

Spec == Init /\ [][Next]_vars

(***************************************************************************)
(* Properties of the rewriter                                              *)
(***************************************************************************)
\* the results computed so far, by either function
Rewritten == {parsed[k] : k \in 1..Len(parsed)} \cup {prepared[k] : k \in 1..Len(prepared)}

\* SQL lexing of quotes: the state before position p of q, one of
\* "out", "sq" (inside '...'), "dq" (inside "...")
RECURSIVE LexState(_, _)
LexState(q, p) ==
    IF p = 1 THEN "out"
    ELSE LET before == LexState(q, p - 1)
             c == q[p - 1]
         IN  CASE before = "out" /\ c = "'" -> "sq"
               [] before = "out" /\ c = "\"" -> "dq"
               [] before = "sq" /\ c = "'" -> "out"
               [] before = "dq" /\ c = "\"" -> "out"
               [] OTHER -> before

\* position p of q lies in the body of a quoted literal or identifier
InLiteral(q, p) == LexState(q, p) # "out"

\* positions of q where the rewriter looked at a match
Looked(r) == {r.matches[k].pos + 1 : k \in 1..Len(r.matches)}

\* the matches that were replaced by `$k`
Replaced(r) == SelectSeq(r.matches, LAMBDA m : m.index # 0)

\* C1: literal safety.  The matches the rewriter treats as placeholder
\* candidates are exactly the `:name` occurrences outside every '...' and
\* "..." literal: none inside a literal is rewritten, none outside is missed.
C1_LiteralSafety ==
    \A r \in Rewritten :
        Looked(r) = {p \in 1..Len(query) : MatchesAt(query, p) /\ ~InLiteral(query, p)}

\* names in order of first occurrence
RECURSIVE FirstOccurrences(_)
FirstOccurrences(names) ==
    IF names = <<>> THEN <<>>
    ELSE LET init == FirstOccurrences(SubSeq(names, 1, Len(names) - 1))
             last == names[Len(names)]
         IN  IF \E k \in 1..Len(init) : init[k] = last THEN init
             ELSE Append(init, last)

RECURSIVE Names(_)
Names(ms) == IF ms = <<>> THEN <<>> ELSE <<Head(ms).name>> \o Names(Tail(ms))

\* q from position p on, with every replaced match substituted by its `$k`
RECURSIVE Substituted(_, _, _)
Substituted(q, p, ms) ==
    IF p > Len(q) THEN <<>>
    ELSE IF \E k \in 1..Len(ms) : ms[k].pos + 1 = p
    THEN LET m == ms[CHOOSE k \in 1..Len(ms) : ms[k].pos + 1 = p]
         IN  <<"$">> \o Decimal(m.index) \o Substituted(q, p + 1 + Len(m.name), ms)
    ELSE <<q[p]>> \o Substituted(q, p + 1, ms)

\* C2: parameter numbering.  params holds the distinct replaced names in
\* order of first occurrence, params[k] is the name replaced by `$k`, every
\* occurrence of a name gets the same `$k`, and raw_query is the input with
\* exactly these substitutions.
C2_ParameterNumbering ==
    \A r \in Rewritten :
        /\ \A i, j \in 1..Len(r.params) : r.params[i] = r.params[j] => i = j
        /\ r.params = FirstOccurrences(Names(Replaced(r)))
        /\ \A k \in 1..Len(r.matches) :
              LET m == r.matches[k]
              IN  m.index # 0 =>
                    /\ m.index \in 1..Len(r.params)
                    /\ r.params[m.index] = m.name
        /\ r.raw_query = Substituted(query, 1, Replaced(r))

\* C2 witness: `:a:a` has been rewritten to `$1$1` with params = ["a"]
C2_Witness ==
    /\ IsSome(parsed)
    /\ Len(parsed[1].params) = 1
    /\ Len(Replaced(parsed[1])) = 2
    /\ parsed[1].raw_query = <<"$", "1", "$", "1">>

\* C3: cast guard.  A match is skipped exactly when the character
\* immediately before it is `:`, and replaced by `$k` in every other case.
C3_CastGuard ==
    \A r \in Rewritten :
        \A k \in 1..Len(r.matches) :
            LET m == r.matches[k]
            IN  (m.index = 0) <=> (m.pos >= 1 /\ query[m.pos] = ":")

\* the input has no `:name` other than the type names of `::` casts
NoPlaceholder(q) ==
    \A p \in 1..Len(q) : MatchesAt(q, p) => (p > 1 /\ q[p - 1] = ":")

\* C4: identity on placeholder-free input.  When the input has no `:name`
\* placeholder, raw_query is the input and params is empty.
C4_IdentityWithoutPlaceholders ==
    \A r \in Rewritten :
        NoPlaceholder(query) => (r.raw_query = query /\ r.params = <<>>)

\* C4 witness: a rewritten placeholder-free input with a quote and a cast
C4_Witness ==
    /\ IsSome(parsed)
    /\ NoPlaceholder(query)
    /\ \E k \in 1..Len(parsed[1].matches) : parsed[1].matches[k].index = 0
    /\ \E p \in 1..Len(query) : query[p] \in {"'", "\""}
    /\ parsed[1].raw_query = query

(***************************************************************************)
(* sql-infer-core/src/inference.rs: SqlType and QueryItem                  *)
(***************************************************************************)
Unit(tag) == [tag |-> tag]

\* SqlType::from_str
SqlType_from_str(sql_type) ==
    CASE sql_type = "BOOL" -> Unit("Bool")
      [] sql_type \in {"SMALLINT", "INT2"} -> Unit("Int2")
      [] sql_type \in {"INT", "INT4"} -> Unit("Int4")
      [] sql_type = "INT8" -> Unit("Int8")
      [] sql_type = "SMALLSERIAL" -> Unit("SmallSerial")
      [] sql_type = "SERIAL" -> Unit("Serial")
      [] sql_type = "BIGSERIAL" -> Unit("BigSerial")
      [] sql_type = "NUMERIC" ->
            [tag |-> "Decimal", precision |-> None, precision_radix |-> None]
      [] sql_type = "TIMESTAMP" -> [tag |-> "Timestamp", tz |-> FALSE]
      [] sql_type = "TIMESTAMPTZ" -> [tag |-> "Timestamp", tz |-> TRUE]
      [] sql_type = "TIME" -> [tag |-> "Time", tz |-> FALSE]
      [] sql_type = "TIMETZ" -> [tag |-> "Time", tz |-> TRUE]
      [] sql_type = "DATE" -> Unit("Date")
      [] sql_type = "CHAR" -> [tag |-> "Char", length |-> None]
      [] sql_type = "VARCHAR" -> [tag |-> "VarChar", length |-> None]
      [] sql_type = "BIT" -> [tag |-> "Char", length |-> None]
      [] sql_type = "VARBIT" -> [tag |-> "VarChar", length |-> None]
      [] sql_type = "TEXT" -> Unit("Text")
      [] sql_type = "JSON" -> Unit("Json")
      [] sql_type = "JSONB" -> Unit("Json")
      [] sql_type \in {"DOUBLE PRECISION", "FLOAT8"} -> Unit("Float8")
      [] sql_type \in {"REAL", "FLOAT4"} -> Unit("Float4")
      [] sql_type = "INTERVAL" -> Unit("Interval")
      [] OTHER -> Unit("Unknown")

\* sqlx PgTypeInfo: a type name and, for an enum, its labels
PgSimple(name) == [name |-> name, kind |-> "Simple", items |-> <<>>]

PgEnum(name, items) == [name |-> name, kind |-> "Enum", items |-> items]

\* SqlType::from_pg_type_info
SqlType_from_pg_type_info(type_info) ==
    IF type_info.kind = "Enum"
    THEN [tag |-> "Enum", name |-> type_info.name, tags |-> type_info.items]
    ELSE SqlType_from_str(type_info.name)

QueryItem(name, sql_type, nullable) ==
    [name |-> name, sql_type |-> sql_type, nullable |-> nullable]

\* check_statement: the loop over prepared.parameters(); the item is named
\* after the type (`parameters.iter().zip(parameters.iter())`)
RECURSIVE input_types(_)
input_types(parameters) ==
    IF parameters = <<>> THEN <<>>
    ELSE <<QueryItem(Head(parameters).name,
                     SqlType_from_pg_type_info(Head(parameters)),
                     "Unknown")>> \o input_types(Tail(parameters))

\* the loop over prepared.columns() with every item put in front
RECURSIVE result_types_reversed(_)
result_types_reversed(columns) ==
    IF columns = <<>> THEN <<>>
    ELSE result_types_reversed(Tail(columns))
            \o <<QueryItem(Head(columns).name,
                           SqlType_from_pg_type_info(Head(columns).type_info),
                           "Unknown")>>

\* check_statement: the loop over prepared.columns()
RECURSIVE result_types(_)
result_types(columns) ==
    IF columns = <<>> THEN <<>>
    ELSE <<QueryItem(Head(columns).name,
                     SqlType_from_pg_type_info(Head(columns).type_info),
                     "Unknown")>> \o result_types(Tail(columns))

(***************************************************************************)
(* sql-infer-cli/src/commands/generate.rs: Generate::run for one query     *)
(* file, with no experimental feature enabled (no pass registered, so a    *)
(* successful inference returns the output items as check_statement built  *)
(* them).  The database is the environment: what `prepare` reports for the *)
(* rewritten text, and whether a step of the inference fails, are chosen   *)
(* by it.                                                                  *)
(***************************************************************************)
MaxDriverParams == 2

GenerateChars == {":", "a", "1"}

file_name == "q"

\* type descriptions the driver may report
DriverTypes == {PgSimple("INT4"), PgSimple("TEXT"), PgEnum("mood", <<"sad", "ok">>)}

\* column lists the driver may report
DriverColumns == {<<>>, <<[name |-> "c", type_info |-> PgSimple("INT4")]>>}

\* .zip(params).map(|(item, param_name)| QueryItem { name: param_name, .. })
RECURSIVE zip_inputs(_, _)
zip_inputs(input, params) ==
    IF input = <<>> \/ params = <<>> THEN <<>>
    ELSE <<QueryItem(Head(params), Head(input).sql_type, Head(input).nullable)>>
            \o zip_inputs(Tail(input), Tail(params))

InitGenerate ==
    /\ query \in Strings(GenerateChars, MaxLen)
    /\ parsed = None
    /\ prepared = None
    /\ files \in {{}, {file_name}}
    /\ check_result = None
    /\ definition = None
    /\ ParserIdle
    /\ ColumnIdle
    /\ SqlTypeIdle
    /\ PassIdle
    /\ InferIdle

\* rt.block_on(sql_infer.infer_types(&pool, &raw_query)) returns Ok
InferTypesOk ==
    /\ IsSome(parsed)
    /\ check_result = None
    /\ \E parameters \in Strings(DriverTypes, MaxDriverParams), columns \in DriverColumns :
          check_result' = Some([ok |-> TRUE,
                                input |-> input_types(parameters),
                                output |-> result_types(columns)])
    /\ UNCHANGED <<rewriter_vars, files, definition, parser_vars, column_vars,
                 sqltype_vars, pass_vars, infer_vars>>

\* infer_types returns Err: logged, and the file is skipped
InferTypesErr ==
    /\ IsSome(parsed)
    /\ check_result = None
    /\ check_result' = Some([ok |-> FALSE, input |-> <<>>, output |-> <<>>])
    /\ UNCHANGED <<rewriter_vars, files, definition, parser_vars, column_vars,
                 sqltype_vars, pass_vars, infer_vars>>

\* the query definition is built and pushed to the code generator, unless a
\* query of that name was pushed before
Push ==
    /\ IsSome(check_result)
    /\ check_result[1].ok
    /\ definition = None
    /\ file_name \notin files
    /\ definition' = Some([query |-> query,
                           inputs |-> zip_inputs(check_result[1].input, parsed[1].params),
                           outputs |-> check_result[1].output])
    /\ files' = files \cup {file_name}
    /\ UNCHANGED <<rewriter_vars, check_result, parser_vars, column_vars,
                 sqltype_vars, pass_vars, infer_vars>>

NextGenerate == ParseIntoPostgres \/ InferTypesOk \/ InferTypesErr \/ Push

SpecGenerate == InitGenerate /\ [][NextGenerate]_vars

\* C5: input naming.  A pushed definition has exactly one input per declared
\* placeholder, in order, named after the placeholder and typed by the
\* driver's parameter of the same position; none is dropped.
C5_InputNaming ==
    IsSome(definition) =>
        LET inputs == definition[1].inputs
            params == parsed[1].params
        IN  /\ Len(inputs) = Len(params)
            /\ \A i \in 1..Len(inputs) :
                  /\ inputs[i].name = params[i]
                  /\ inputs[i].sql_type = check_result[1].input[i].sql_type

(***************************************************************************)
(* sql-infer-core/src/parser.rs: Table and Column                          *)
(***************************************************************************)
Table_new(name) == [kind |-> "Db", name |-> name]

Table_alias(name, source) == [kind |-> "Alias", name |-> name, source |-> source]

\* left and right are pairs <<null-extended, Table>>
Table_join(left, right) == [kind |-> "Join", left |-> left, right |-> right]

Table_unknown(sql) == [kind |-> "Unknown", sql |-> sql]

Column_depends_on(table, column) ==
    [kind |-> "DependsOn", table |-> table, column |-> column]

Column_either(left, right) == [kind |-> "Either", left |-> left, right |-> right]

Column_maybe(column) == [kind |-> "Maybe", column |-> column]

Column_unknown(sql) == [kind |-> "Unknown", sql |-> sql]

Column_cast(source, data_type) ==
    [kind |-> "Cast", source |-> source, data_type |-> data_type]

Column_bin_op(op, left, right) ==
    [kind |-> "BinaryOp", op |-> op, left |-> left, right |-> right]

Column_value(value) == [kind |-> "Value", value |-> value]

\* #[derive(PartialEq)] on Column: same variant, and all fields equal
RECURSIVE Column_eq(_, _)
Column_eq(a, b) ==
    /\ a.kind = b.kind
    /\ CASE a.kind = "DependsOn" -> a.table = b.table /\ a.column = b.column
         [] a.kind = "Maybe" -> Column_eq(a.column, b.column)
         [] a.kind = "Either" -> Column_eq(a.left, b.left) /\ Column_eq(a.right, b.right)
         [] a.kind = "Unknown" -> a.sql = b.sql
         [] a.kind = "Cast" ->
                Column_eq(a.source, b.source) /\ a.data_type = b.data_type
         [] a.kind = "BinaryOp" ->
                a.op = b.op /\ Column_eq(a.left, b.left) /\ Column_eq(a.right, b.right)
         [] a.kind = "Value" -> a.value = b.value

\* impl From<BinaryOperator> for BinaryOpData
BinaryOpData_from(value) ==
    CASE value \in {"Plus", "Minus", "Multiply", "Divide", "Modulo"} ->
            [kind |-> "Numeric", inner |-> value]
      [] value = "StringConcat" -> [kind |-> "Concat"]
      [] value \in {"Gt", "Lt", "GtEq", "LtEq", "Eq", "NotEq", "And", "Or", "Xor"} ->
            [kind |-> "ConstantType", inner |-> value, sql_type |-> Unit("Bool")]
      [] OTHER -> [kind |-> "Unknown", inner |-> value]

\* the wrapping of one join side with the side's flag ignored
wrap_always(null, column) == Column_maybe(column)

\* `match flag { true => column.maybe(), false => column }`
wrap(null, column) == IF null THEN Column_maybe(column) ELSE column

\* Table::find_column
RECURSIVE find_column(_, _)
find_column(self, ident) ==
    CASE self.kind = "Db" -> Column_depends_on(self.name, ident)
      [] self.kind = "Alias" -> find_column(self.source, ident)
      [] self.kind = "Join" ->
            LET left == wrap(self.left[1], find_column(self.left[2], ident))
                right == wrap(self.right[1], find_column(self.right[2], ident))
            IN  Column_either(left, right)
      [] self.kind = "Unknown" -> Column_unknown(self.sql)

\* the candidate of a qualified lookup left bare whatever the side's flag
wrap_option_never(null, column) == column

\* Option::map(Column::maybe) under the side's flag
wrap_option(null, column) ==
    IF IsSome(column) THEN Some(wrap(null, column[1])) ELSE None

\* the match with the one-sided arms lost: a hit needs both sides
combine_sides_both(left, right) ==
    IF IsSome(left) /\ IsSome(right)
    THEN Some(Column_either(left[1], right[1])) ELSE None

\* the `match (left, right)` of find_table_column on a Join
combine_sides(left, right) ==
    CASE ~IsSome(left) /\ ~IsSome(right) -> None
      [] ~IsSome(left) /\ IsSome(right) -> right
      [] IsSome(left) /\ ~IsSome(right) -> left
      [] IsSome(left) /\ IsSome(right) -> Some(Column_either(left[1], right[1]))

\* Table::find_table_column
RECURSIVE find_table_column(_, _, _)
find_table_column(self, table, ident) ==
    CASE self.kind = "Db" ->
            IF self.name = table THEN Some(Column_depends_on(table, ident)) ELSE None
      [] self.kind = "Alias" ->
            IF self.name = table THEN Some(find_column(self.source, ident)) ELSE None
      [] self.kind = "Join" ->
            LET left == wrap_option(self.left[1],
                            find_table_column(self.left[2], table, ident))
                right == wrap_option(self.right[1],
                            find_table_column(self.right[2], table, ident))
            IN  combine_sides(left, right)
      [] self.kind = "Unknown" -> Some(Column_unknown(self.sql))

(***************************************************************************)
(* sqlparser AST, as far as parser.rs reads it.  An Ident is its unquoted  *)
(* value and its quote style; an ObjectName is a sequence of Idents.       *)
(***************************************************************************)
Ident(value) == [value |-> value, quote_style |-> None]

QuotedIdent(value) == [value |-> value, quote_style |-> Some("\"")]

\* the value with every quote character doubled
RECURSIVE EscapeQuoted(_, _)
EscapeQuoted(value, quote) ==
    IF value = <<>> THEN <<>>
    ELSE (IF Head(value) = quote THEN <<quote, quote>> ELSE <<Head(value)>>)
            \o EscapeQuoted(Tail(value), quote)

\* ident.to_string(): a quoted identifier is printed in its quotes
Ident_to_string(ident) ==
    IF IsSome(ident.quote_style)
    THEN <<ident.quote_style[1]>>
            \o EscapeQuoted(ident.value, ident.quote_style[1])
            \o <<ident.quote_style[1]>>
    ELSE ident.value

\* object_name.to_string(): the parts separated by `.`
RECURSIVE ObjectName_to_string(_)
ObjectName_to_string(name) ==
    IF Len(name) = 1 THEN Ident_to_string(name[1])
    ELSE Ident_to_string(Head(name)) \o <<".">> \o ObjectName_to_string(Tail(name))

\* str::replace("\"\"", "\""): non-overlapping, left to right
RECURSIVE ReplaceDoubled(_)
ReplaceDoubled(s) ==
    IF Len(s) >= 2 /\ s[1] = "\"" /\ s[2] = "\""
    THEN <<"\"">> \o ReplaceDoubled(SubSeq(s, 3, Len(s)))
    ELSE IF s = <<>> THEN <<>>
    ELSE <<Head(s)>> \o ReplaceDoubled(Tail(s))

\* unescape
unescape(name) ==
    IF ~(Len(name) >= 1 /\ name[1] = "\"") \/ ~(Len(name) >= 1 /\ name[Len(name)] = "\"")
    THEN name
    ELSE ReplaceDoubled(SubSeq(name, 2, Len(name) - 1))

\* the join operators get_join gives flags to, and those it does not support
UnsupportedJoinOperators ==
    {"Semi", "LeftSemi", "RightSemi", "Anti", "LeftAnti", "RightAnti",
     "CrossApply", "OuterApply", "StraightJoin", "AsOf"}

JoinOperators ==
    {"Inner", "Join", "LeftOuter", "Left", "RightOuter", "Right",
     "FullOuter", "CrossJoin"} \cup UnsupportedJoinOperators

\* the table with LEFT given the flags of RIGHT
join_nullability_left_as_right(join_operator) ==
    CASE join_operator \in {"Inner", "Join"} -> <<FALSE, FALSE>>
      [] join_operator \in {"LeftOuter", "Left"} -> <<TRUE, FALSE>>
      [] join_operator \in {"RightOuter", "Right"} -> <<TRUE, FALSE>>
      [] join_operator = "FullOuter" -> <<TRUE, TRUE>>
      [] join_operator = "CrossJoin" -> <<TRUE, TRUE>>

\* get_join: `let (left_null, right_null) = match &join.join_operator`
join_nullability(join_operator) ==
    CASE join_operator \in {"Inner", "Join"} -> <<FALSE, FALSE>>
      [] join_operator \in {"LeftOuter", "Left"} -> <<FALSE, TRUE>>
      [] join_operator \in {"RightOuter", "Right"} -> <<TRUE, FALSE>>
      [] join_operator = "FullOuter" -> <<TRUE, TRUE>>
      [] join_operator = "CrossJoin" -> <<TRUE, TRUE>>

\* node.to_string() of an AST node, kept symbolic
Display(node) == [display |-> node]

RECURSIVE relation_tables(_)
RECURSIVE get_join_loop(_, _, _)

\* get_join: the loop over table.joins, from join k on
get_join_loop(joins, k, left) ==
    IF k > Len(joins) THEN left
    ELSE IF joins[k].join_operator \in UnsupportedJoinOperators
    THEN Table_unknown(Display(joins[k]))
    ELSE LET null == join_nullability(joins[k].join_operator)
             right == relation_tables(joins[k].relation)
         IN  get_join_loop(joins, k + 1,
                           Table_join(<<null[1], left>>, <<null[2], right>>))

get_join(table) == get_join_loop(table.joins, 1, relation_tables(table.relation))

relation_tables(table_factor) ==
    CASE table_factor.kind = "Table" ->
            LET table == Table_new(unescape(ObjectName_to_string(table_factor.name)))
            IN  IF IsSome(table_factor.alias)
                THEN Table_alias(Ident_to_string(table_factor.alias[1]), table)
                ELSE table
      [] table_factor.kind = "NestedJoin" ->
            LET table == get_join_loop(table_factor.table_with_joins.joins, 1,
                            relation_tables(table_factor.table_with_joins.relation))
            IN  IF IsSome(table_factor.alias)
                THEN Table_alias(Ident_to_string(table_factor.alias[1]), table)
                ELSE table
      [] OTHER -> Table_unknown(Display(table_factor))

\* identify_tables
RECURSIVE identify_tables(_)
identify_tables(tables) ==
    IF tables = <<>> THEN <<>>
    ELSE <<get_join(Head(tables))>> \o identify_tables(Tail(tables))

\* the Value variants find_field_in_expr maps to ValueType::String
StringLiteralKinds ==
    {"SingleQuotedString", "DollarQuotedString", "TripleSingleQuotedString",
     "TripleDoubleQuotedString", "EscapedStringLiteral", "UnicodeStringLiteral",
     "SingleQuotedByteStringLiteral", "DoubleQuotedByteStringLiteral",
     "TripleSingleQuotedByteStringLiteral", "TripleDoubleQuotedByteStringLiteral",
     "SingleQuotedRawStringLiteral", "DoubleQuotedRawStringLiteral",
     "TripleSingleQuotedRawStringLiteral", "TripleDoubleQuotedRawStringLiteral",
     "NationalStringLiteral", "HexStringLiteral", "DoubleQuotedString"}

LowerCaseSeq ==
    <<"a","b","c","d","e","f","g","h","i","j","k","l","m",
      "n","o","p","q","r","s","t","u","v","w","x","y","z">>

UpperCaseSeq ==
    <<"A","B","C","D","E","F","G","H","I","J","K","L","M",
      "N","O","P","Q","R","S","T","U","V","W","X","Y","Z">>

\* str::to_lowercase on ASCII text
RECURSIVE to_lowercase(_)
to_lowercase(s) ==
    IF s = <<>> THEN <<>>
    ELSE (IF Head(s) \in UpperCase
          THEN <<LowerCaseSeq[CHOOSE k \in 1..26 : UpperCaseSeq[k] = Head(s)]>>
          ELSE <<Head(s)>>) \o to_lowercase(Tail(s))

\* find_field_in_expr, Expr::Identifier: the Either-fold of find_column
RECURSIVE identifier_fold(_, _, _, _)
identifier_fold(tables, k, ident, result) ==
    IF k > Len(tables) THEN result
    ELSE identifier_fold(tables, k + 1, ident,
                         Column_either(result, find_column(tables[k], ident)))

\* find_field_in_expr, Expr::CompoundIdentifier: `match (result, current)`
compound_step(result, current) ==
    CASE ~IsSome(result) -> current
      [] IsSome(result) /\ IsSome(current) -> Some(Column_either(result[1], current[1]))
      [] OTHER -> None

\* find_field_in_expr, Expr::CompoundIdentifier: `for table in tables`
RECURSIVE compound_fold(_, _, _, _, _)
compound_fold(tables, k, table_ident, col_ident, result) ==
    IF k > Len(tables) THEN result
    ELSE compound_fold(tables, k + 1, table_ident, col_ident,
            compound_step(result,
                find_table_column(tables[k], table_ident.value, col_ident.value)))

\* find_field_in_expr
RECURSIVE find_field_in_expr(_, _)
find_field_in_expr(expr, tables) ==
    CASE expr.kind = "Identifier" ->
            IF tables = <<>> THEN None
            ELSE Some(identifier_fold(tables, 2, expr.ident.value,
                                      find_column(tables[1], expr.ident.value)))
      [] expr.kind = "Cast" ->
            LET source == find_field_in_expr(expr.expr, tables)
            IN  IF IsSome(source) THEN Some(Column_cast(source[1], expr.data_type))
                ELSE None
      [] expr.kind = "CompoundIdentifier" ->
            LET n == Len(expr.idents)
            IN  compound_fold(tables, 1, expr.idents[n - 1], expr.idents[n], None)
      [] expr.kind = "Nested" -> find_field_in_expr(expr.expr, tables)
      [] expr.kind = "BinaryOp" ->
            LET left == find_field_in_expr(expr.left, tables)
                right == find_field_in_expr(expr.right, tables)
            IN  IF IsSome(left) /\ IsSome(right)
                THEN Some(Column_bin_op(BinaryOpData_from(expr.op), left[1], right[1]))
                ELSE None
      [] expr.kind = "Value" ->
            (CASE expr.value.kind = "Number" ->
                    Some(Column_value(IF expr.value.is_integer THEN "Int" ELSE "Float"))
               [] expr.value.kind \in StringLiteralKinds -> Some(Column_value("String"))
               [] expr.value.kind = "Boolean" -> Some(Column_value("Boolean"))
               [] expr.value.kind = "Null" -> Some(Column_value("Null"))
               [] expr.value.kind = "Placeholder" -> None)
      [] expr.kind = "Function"
            /\ to_lowercase(ObjectName_to_string(expr.name)) = <<"c", "o", "u", "n", "t">> ->
            Some(Column_value("Int"))
      [] OTHER -> Some(Column_unknown(Display(expr)))

\* HashMap::insert
Insert(map, key, value) ==
    [k \in DOMAIN map \cup {key} |-> IF k = key THEN value ELSE map[k]]

EmptyMap == [k \in {} |-> None]

\* the identifier of an unnamed item, its first segment taken for its last
projected_ident_first(expr) ==
    CASE expr.kind = "Identifier" -> Some(expr.ident)
      [] expr.kind = "CompoundIdentifier" -> Some(expr.idents[1])
      [] OTHER -> None

\* find_fields_in_items: the identifier an unnamed item is filed under
projected_ident(expr) ==
    CASE expr.kind = "Identifier" -> Some(expr.ident)
      [] expr.kind = "CompoundIdentifier" -> Some(expr.idents[Len(expr.idents)])
      [] OTHER -> None

\* find_fields_in_items: `for item in items`, from item k on
RECURSIVE find_fields_in_items_loop(_, _, _, _)
find_fields_in_items_loop(items, k, tables, columns) ==
    IF k > Len(items) THEN columns
    ELSE
        LET item == items[k]
            next ==
                CASE item.kind = "UnnamedExpr" ->
                        LET ident == projected_ident(item.expr)
                            column == find_field_in_expr(item.expr, tables)
                        IN  IF ~IsSome(ident) THEN columns
                            ELSE IF ~IsSome(column) THEN columns
                            ELSE Insert(columns, ident[1].value, column[1])
                  [] item.kind = "ExprWithAlias" ->
                        LET column == find_field_in_expr(item.expr, tables)
                        IN  IF ~IsSome(column) THEN columns
                            ELSE Insert(columns, item.alias.value, column[1])
                  [] OTHER -> columns
        IN  find_fields_in_items_loop(items, k + 1, tables, next)

find_fields_in_items(items, tables) ==
    find_fields_in_items_loop(items, 1, tables, EmptyMap)

Ok(value) == [ok |-> TRUE, value |-> value]

Err(error) == [ok |-> FALSE, error |-> error]

\* find_fields with the WITH clause of a query passed over
find_fields_with(stmt) ==
    CASE stmt.kind = "Query" ->
            IF stmt.body.kind = "Select"
            THEN Ok(find_fields_in_items(stmt.body.projection,
                                         identify_tables(stmt.body.from)))
            ELSE Err([kind |-> "UnsupportedStatement", statement |-> Display(stmt)])
      [] stmt.kind = "Insert" ->
            IF stmt.table.kind = "TableName"
            THEN LET table == Table_new(unescape(ObjectName_to_string(stmt.table.name)))
                 IN  Ok(IF IsSome(stmt.returning)
                        THEN find_fields_in_items(stmt.returning[1], <<table>>)
                        ELSE EmptyMap)
            ELSE Err([kind |-> "UnsupportedQueryElement",
                      name |-> Display(stmt.table)])
      [] stmt.kind = "Update" ->
            LET table == get_join(stmt.table)
            IN  Ok(IF IsSome(stmt.returning)
                   THEN find_fields_in_items(stmt.returning[1], <<table>>)
                   ELSE EmptyMap)
      [] stmt.kind = "Delete" ->
            LET tables == identify_tables(stmt.from)
            IN  Ok(IF IsSome(stmt.returning)
                   THEN find_fields_in_items(stmt.returning[1], tables)
                   ELSE EmptyMap)
      [] OTHER -> Err([kind |-> "UnsupportedStatement", statement |-> Display(stmt)])

\* find_fields
find_fields(stmt) ==
    CASE stmt.kind = "Query" ->
            IF stmt.with
            THEN Err([kind |-> "UnsupportedQueryElement", name |-> "with"])
            ELSE IF stmt.body.kind = "Select"
            THEN Ok(find_fields_in_items(stmt.body.projection,
                                         identify_tables(stmt.body.from)))
            ELSE Err([kind |-> "UnsupportedStatement", statement |-> Display(stmt)])
      [] stmt.kind = "Insert" ->
            IF stmt.table.kind = "TableName"
            THEN LET table == Table_new(unescape(ObjectName_to_string(stmt.table.name)))
                 IN  Ok(IF IsSome(stmt.returning)
                        THEN find_fields_in_items(stmt.returning[1], <<table>>)
                        ELSE EmptyMap)
            ELSE Err([kind |-> "UnsupportedQueryElement",
                      name |-> Display(stmt.table)])
      [] stmt.kind = "Update" ->
            LET table == get_join(stmt.table)
            IN  Ok(IF IsSome(stmt.returning)
                   THEN find_fields_in_items(stmt.returning[1], <<table>>)
                   ELSE EmptyMap)
      [] stmt.kind = "Delete" ->
            LET tables == identify_tables(stmt.from)
            IN  Ok(IF IsSome(stmt.returning)
                   THEN find_fields_in_items(stmt.returning[1], tables)
                   ELSE EmptyMap)
      [] OTHER -> Err([kind |-> "UnsupportedStatement", statement |-> Display(stmt)])

(***************************************************************************)
(* The resolver as a state machine: a SELECT statement comes out of the    *)
(* SQL parser, then find_fields builds its field map.                      *)
(***************************************************************************)
\* a statement names at most MaxSize tables and projected items together
MaxSize == 3

\* table names: a, and the quoted "b""" whose value is b"
TableIdents == {Ident(<<"a">>), QuotedIdent(<<"b", "\"">>)}

AliasIdents == {Ident(<<"x">>)}

\* column names: c, and a, which is a table name as well
ColumnIdents == {Ident(<<"c">>), Ident(<<"a">>)}

TableFactors ==
    {[kind |-> "Table", name |-> <<t>>, alias |-> al] :
        t \in TableIdents, al \in {None} \cup {Some(a) : a \in AliasIdents}}

Joins ==
    {[relation |-> f, join_operator |-> op] : f \in TableFactors, op \in JoinOperators}

\* a table factor followed by n - 1 joins
TablesWithJoins(n) ==
    {[relation |-> f, joins |-> js] : f \in TableFactors, js \in [1..(n - 1) -> Joins]}

\* the FROM lists that name exactly n tables
RECURSIVE FromLists(_)
FromLists(n) ==
    IF n = 0 THEN {<<>>}
    ELSE UNION {{<<t>> \o rest : t \in TablesWithJoins(k), rest \in FromLists(n - k)} :
                    k \in 1..n}

Identifier(ident) == [kind |-> "Identifier", ident |-> ident]

CompoundIdentifier(idents) == [kind |-> "CompoundIdentifier", idents |-> idents]

\* a column, bare or qualified by a table name or an alias
ColumnExprs ==
    {Identifier(c) : c \in ColumnIdents}
        \cup {CompoundIdentifier(<<t, c>>) :
                t \in TableIdents \cup AliasIdents, c \in ColumnIdents}

SelectItems ==
    {[kind |-> "UnnamedExpr", expr |-> e] : e \in ColumnExprs}
        \cup {[kind |-> "ExprWithAlias", expr |-> e, alias |-> a] :
                e \in ColumnExprs, a \in AliasIdents}

Projections(m) == [1..m -> SelectItems]

\* `select <projection> from <from>`
SelectStatement(projection, from) ==
    [kind |-> "Query", with |-> FALSE,
     body |-> [kind |-> "Select", projection |-> projection, from |-> from]]

\* a SELECT statement of m >= 1 projected items over n >= 0 tables,
\* m + n <= MaxSize
InitParser ==
    /\ query = <<>>
    /\ parsed = None
    /\ prepared = None
    /\ GenerateIdle
    /\ \E m \in 1..MaxSize : \E n \in 0..(MaxSize - m) :
            \E p \in Projections(m), f \in FromLists(n) :
                statement = Some(SelectStatement(p, f))
    /\ fields = None
    /\ ColumnIdle
    /\ SqlTypeIdle
    /\ PassIdle
    /\ InferIdle

FindFields ==
    /\ IsSome(statement)
    /\ fields = None
    /\ fields' = Some(find_fields(statement[1]))
    /\ UNCHANGED <<rewriter_vars, generate_vars, statement, column_vars,
                 sqltype_vars, pass_vars, infer_vars>>

NextParser == FindFields

SpecParser == InitParser /\ [][NextParser]_vars

(***************************************************************************)
(* Properties of the resolver                                              *)
(***************************************************************************)
Projection == statement[1].body.projection

From == statement[1].body.from

\* a table factor that is a table name without alias
PlainTable(f) == f.kind = "Table" /\ f.alias = None /\ Len(f.name) = 1

NameOf(f) == f.name[1].value

\* the name a projected item is expected under: its alias, else the last
\* segment of its identifier
OutputName(item) ==
    IF item.kind = "ExprWithAlias" THEN item.alias.value
    ELSE IF item.expr.kind = "Identifier" THEN item.expr.ident.value
    ELSE item.expr.idents[Len(item.expr.idents)].value

ColumnOf(expr) ==
    IF expr.kind = "Identifier" THEN expr.ident.value
    ELSE expr.idents[Len(expr.idents)].value

Qualified(expr) == expr.kind = "CompoundIdentifier"

QualifierOf(expr) == expr.idents[Len(expr.idents) - 1].value

\* the statement is `select <item> from t`: one item, one table, no alias,
\* the item unqualified or qualified by t
SingleTableSelect ==
    /\ IsSome(statement)
    /\ Len(Projection) = 1
    /\ Len(From) = 1
    /\ From[1].joins = <<>>
    /\ PlainTable(From[1].relation)
    /\ Qualified(Projection[1].expr) =>
            QualifierOf(Projection[1].expr) = NameOf(From[1].relation)

\* C6: single-table resolution.  For `select <item> from t` with <item> one
\* of c, t.c, c as x, t.c as x, the field map has exactly the output name
\* (alias, else c), mapped to DependsOn{t, c}.
C6_SingleTableResolution ==
    (IsSome(fields) /\ SingleTableSelect) =>
        LET item == Projection[1]
        IN  /\ fields[1].ok
            /\ DOMAIN fields[1].value = {OutputName(item)}
            /\ fields[1].value[OutputName(item)] =
                    Column_depends_on(NameOf(From[1].relation), ColumnOf(item.expr))

\* C6 witness: `select "b""".c as x from "b"""` has been resolved
C6_Witness ==
    /\ IsSome(fields)
    /\ SingleTableSelect
    /\ Projection[1].kind = "ExprWithAlias"
    /\ Qualified(Projection[1].expr)
    /\ IsSome(From[1].relation.name[1].quote_style)
    /\ fields[1].ok

\* the statement selects one item from `l <op> r` with op among ops, l and r
\* tables without alias
TwoTableSelect(ops) ==
    /\ IsSome(statement)
    /\ Len(Projection) = 1
    /\ Len(From) = 1
    /\ Len(From[1].joins) = 1
    /\ From[1].joins[1].join_operator \in ops
    /\ PlainTable(From[1].relation)
    /\ PlainTable(From[1].joins[1].relation)

LeftName == NameOf(From[1].relation)

RightName == NameOf(From[1].joins[1].relation)

\* C7: for `select c from a join b` with a # b, field c is
\* Either(DependsOn{a,c}, DependsOn{b,c}), no side wrapped in Maybe, and it
\* compares equal to that Either.
C7_UnqualifiedOverInnerJoin ==
    (/\ IsSome(fields)
     /\ TwoTableSelect({"Inner", "Join"})
     /\ ~Qualified(Projection[1].expr)
     /\ LeftName # RightName) =>
        LET item == Projection[1]
            c == ColumnOf(item.expr)
            found == fields[1].value[OutputName(item)]
        IN  /\ fields[1].ok
            /\ OutputName(item) \in DOMAIN fields[1].value
            /\ found.kind = "Either"
            /\ found.left = Column_depends_on(LeftName, c)
            /\ found.right = Column_depends_on(RightName, c)
            /\ Column_eq(found, Column_either(Column_depends_on(LeftName, c),
                                              Column_depends_on(RightName, c)))

\* C7 witness: `select c from a join "b"""` has been resolved
C7_Witness ==
    /\ IsSome(fields)
    /\ TwoTableSelect({"Join"})
    /\ Projection[1].kind = "UnnamedExpr"
    /\ ~Qualified(Projection[1].expr)
    /\ LeftName # RightName
    /\ fields[1].ok

\* the Join nodes on the left spine of a table tree answer a qualified
\* lookup with None only when both of their sides do
RECURSIVE NoneOnlyWhenBothNone(_, _, _)
NoneOnlyWhenBothNone(table, t, c) ==
    table.kind = "Join" =>
        /\ (find_table_column(table, t, c) = None) <=>
                (/\ find_table_column(table.left[2], t, c) = None
                 /\ find_table_column(table.right[2], t, c) = None)
        /\ NoneOnlyWhenBothNone(table.left[2], t, c)

QualifierValues == {t.value : t \in TableIdents \cup AliasIdents}

ColumnValues == {c.value : c \in ColumnIdents}

\* C8: for `select t.c from t join x` with t # x, field c is the bare
\* DependsOn{t,c}; and find_table_column on a Join is None only when both
\* sides are None.
C8_QualifiedNarrows ==
    IsSome(fields) =>
        /\ (/\ TwoTableSelect({"Inner", "Join"})
            /\ Qualified(Projection[1].expr)
            /\ QualifierOf(Projection[1].expr) = LeftName
            /\ LeftName # RightName) =>
                /\ fields[1].ok
                /\ OutputName(Projection[1]) \in DOMAIN fields[1].value
                /\ fields[1].value[OutputName(Projection[1])] =
                        Column_depends_on(LeftName, ColumnOf(Projection[1].expr))
        /\ \A k \in 1..Len(From) : \A t \in QualifierValues, c \in ColumnValues :
                NoneOnlyWhenBothNone(get_join(From[k]), t, c)

\* C8 witness: `select a.c from a join "b"""` has been resolved
C8_Witness ==
    /\ IsSome(fields)
    /\ TwoTableSelect({"Inner", "Join"})
    /\ Qualified(Projection[1].expr)
    /\ QualifierOf(Projection[1].expr) = LeftName
    /\ LeftName # RightName
    /\ fields[1].ok

\* the join nullability table as the specification states it
StatedFlags(op) ==
    CASE op \in {"Inner", "Join"} -> <<FALSE, FALSE>>
      [] op \in {"Left", "LeftOuter"} -> <<FALSE, TRUE>>
      [] op \in {"Right", "RightOuter"} -> <<TRUE, FALSE>>
      [] op \in {"FullOuter", "CrossJoin"} -> <<TRUE, TRUE>>

MaybeIf(flag, column) == IF flag THEN [kind |-> "Maybe", column |-> column] ELSE column

\* joins[1..k] folded into `table`: every Join node carries the stated flags
\* and wraps exactly the flagged sides, for unqualified and qualified lookups
RECURSIVE FlagsAndWrapping(_, _, _)
FlagsAndWrapping(table, joins, k) ==
    k >= 1 =>
        LET flags == StatedFlags(joins[k].join_operator)
            l == table.left[2]
            r == table.right[2]
        IN  /\ table.kind = "Join"
            /\ <<table.left[1], table.right[1]>> = flags
            /\ \A c \in ColumnValues :
                LET found == find_column(table, c)
                IN  /\ found.kind = "Either"
                    /\ (found.left.kind = "Maybe") <=> flags[1]
                    /\ (found.right.kind = "Maybe") <=> flags[2]
                    /\ found.left = MaybeIf(flags[1], find_column(l, c))
                    /\ found.right = MaybeIf(flags[2], find_column(r, c))
            /\ \A t \in QualifierValues, c \in ColumnValues :
                LET lc == find_table_column(l, t, c)
                    rc == find_table_column(r, t, c)
                    found == find_table_column(table, t, c)
                IN  /\ (IsSome(lc) /\ IsSome(rc)) =>
                        found = Some(Column_either(MaybeIf(flags[1], lc[1]),
                                                   MaybeIf(flags[2], rc[1])))
                    /\ (IsSome(lc) /\ ~IsSome(rc)) =>
                        found = Some(MaybeIf(flags[1], lc[1]))
                    /\ (~IsSome(lc) /\ IsSome(rc)) =>
                        found = Some(MaybeIf(flags[2], rc[1]))
            /\ FlagsAndWrapping(l, joins, k - 1)

SupportedJoinOperators == JoinOperators \ UnsupportedJoinOperators

\* C9: join nullability table.  A folded join carries (false,false) for
\* INNER/JOIN, (false,true) for LEFT, (true,false) for RIGHT, (true,true)
\* for FULL OUTER and CROSS; a side's candidate is wrapped in Maybe exactly
\* when its flag is true; `select c from a left join b` wraps only b's.
C9_JoinNullability ==
    IsSome(fields) =>
        /\ \A k \in 1..Len(From) :
              (\A j \in 1..Len(From[k].joins) :
                    From[k].joins[j].join_operator \in SupportedJoinOperators) =>
                 FlagsAndWrapping(get_join(From[k]), From[k].joins, Len(From[k].joins))
        /\ (TwoTableSelect({"Left", "LeftOuter"}) /\ ~Qualified(Projection[1].expr)) =>
              /\ fields[1].ok
              /\ OutputName(Projection[1]) \in DOMAIN fields[1].value
              /\ fields[1].value[OutputName(Projection[1])] =
                    Column_either(
                        Column_depends_on(LeftName, ColumnOf(Projection[1].expr)),
                        Column_maybe(Column_depends_on(RightName,
                                                       ColumnOf(Projection[1].expr))))

\* C9 witness: `select c from a left join "b"""` has been resolved, the
\* candidate of the right table wrapped in Maybe
C9_Witness ==
    /\ IsSome(fields)
    /\ TwoTableSelect({"Left"})
    /\ ~Qualified(Projection[1].expr)
    /\ LeftName # RightName
    /\ fields[1].ok
    /\ fields[1].value[OutputName(Projection[1])].right.kind = "Maybe"
    /\ fields[1].value[OutputName(Projection[1])].left.kind = "DependsOn"

(***************************************************************************)
(* Equality of provenance expressions (parser.rs, derive on Column)        *)
(***************************************************************************)
MaxNodes == 5

\* the provenance expressions without a child
ColumnLeaves ==
    {Column_depends_on(<<"a">>, <<"c">>), Column_depends_on(<<"b">>, <<"c">>),
     Column_value("Null")}

\* the expressions of exactly n nodes built by Column::maybe and
\* Column::either
RECURSIVE ColumnsOfSize(_)
ColumnsOfSize(n) ==
    IF n = 1 THEN ColumnLeaves
    ELSE {Column_maybe(x) : x \in ColumnsOfSize(n - 1)}
            \cup UNION {{Column_either(x, y) :
                            x \in ColumnsOfSize(k), y \in ColumnsOfSize(n - 1 - k)} :
                        k \in 1..(n - 2)}

Columns == UNION {ColumnsOfSize(n) : n \in 1..MaxNodes}

InitColumn ==
    /\ query = <<>>
    /\ parsed = None
    /\ prepared = None
    /\ GenerateIdle
    /\ ParserIdle
    /\ lhs \in {Some(x) : x \in Columns}
    /\ rhs \in {Some(x) : x \in Columns}
    /\ equal = None
    /\ SqlTypeIdle
    /\ PassIdle
    /\ InferIdle

\* `lhs == rhs`
Compare ==
    /\ equal = None
    /\ equal' = Some(Column_eq(lhs[1], rhs[1]))
    /\ UNCHANGED <<rewriter_vars, generate_vars, parser_vars, lhs, rhs,
                 sqltype_vars, pass_vars, infer_vars>>

NextColumn == Compare

SpecColumn == InitColumn /\ [][NextColumn]_vars

\* the candidates of an expression, left to right: the expression itself
\* unless it is an Either, whose candidates are those of its two sides
RECURSIVE Candidates(_)
Candidates(column) ==
    IF column.kind = "Either"
    THEN Candidates(column.left) \o Candidates(column.right)
    ELSE <<column>>

Occurrences(x, s) == Cardinality({k \in 1..Len(s) : s[k] = x})

\* the two sequences hold the same elements, each as often
SameBag(s, t) ==
    /\ Len(s) = Len(t)
    /\ \A k \in 1..Len(s) : Occurrences(s[k], s) = Occurrences(s[k], t)

\* C10: equality is commutative on Either.  Two Either expressions that
\* differ only in the grouping or order of the same candidates compare
\* equal; in particular Either(x, y) == Either(y, x).
C10_EitherCommutative ==
    (/\ IsSome(equal)
     /\ lhs[1].kind = "Either"
     /\ rhs[1].kind = "Either"
     /\ SameBag(Candidates(lhs[1]), Candidates(rhs[1]))) => equal[1]

(***************************************************************************)
(* The mapping of driver type names to SqlType: SqlType::from_pg_type_info *)
(* of sql-infer-core, and SqlType::from_str of src/check_query.rs, which   *)
(* reads `type_info().name()` whatever the kind of the type.               *)
(***************************************************************************)
MaxLabels == 2

\* the names SqlType::from_str of sql-infer-core has an arm for
TableTypeNames ==
    {"BOOL", "SMALLINT", "INT2", "INT", "INT4", "INT8", "SMALLSERIAL", "SERIAL",
     "BIGSERIAL", "NUMERIC", "TIMESTAMP", "TIMESTAMPTZ", "TIME", "TIMETZ", "DATE",
     "CHAR", "VARCHAR", "BIT", "VARBIT", "TEXT", "JSON", "JSONB",
     "DOUBLE PRECISION", "FLOAT8", "REAL", "FLOAT4", "INTERVAL"}

\* names of other types of the database
OtherTypeNames == {"UUID", "BYTEA", "mood"}

EnumLabels == {"sad", "ok"}

\* SqlType::from_str of src/check_query.rs
check_query_SqlType_from_str(sql_type) ==
    CASE sql_type = "BOOL" -> Ok(Unit("Bool"))
      [] sql_type \in {"SMALLINT", "INT2"} -> Ok(Unit("Int2"))
      [] sql_type \in {"INT", "INT4"} -> Ok(Unit("Int4"))
      [] sql_type = "INT8" -> Ok(Unit("Int8"))
      [] sql_type = "SMALLSERIAL" -> Ok(Unit("SmallSerial"))
      [] sql_type = "SERIAL" -> Ok(Unit("Serial"))
      [] sql_type = "BIGSERIAL" -> Ok(Unit("BigSerial"))
      [] sql_type = "NUMERIC" ->
            Ok([tag |-> "Decimal", precision |-> None, precision_radix |-> None])
      [] sql_type = "TIMESTAMP" -> Ok([tag |-> "Timestamp", tz |-> FALSE])
      [] sql_type = "TIMESTAMPTZ" -> Ok([tag |-> "Timestamp", tz |-> TRUE])
      [] sql_type \in {"TIME", "TIMETZ"} -> Ok([tag |-> "Time", tz |-> TRUE])
      [] sql_type = "DATE" -> Ok(Unit("Date"))
      [] sql_type = "CHAR" -> Ok([tag |-> "Char", length |-> None])
      [] sql_type = "VARCHAR" -> Ok([tag |-> "VarChar", length |-> None])
      [] sql_type = "TEXT" -> Ok(Unit("Text"))
      [] sql_type = "JSON" -> Ok(Unit("Json"))
      [] sql_type = "JSONB" -> Ok(Unit("Json"))
      [] sql_type \in {"DOUBLE PRECISION", "FLOAT8"} -> Ok(Unit("Float8"))
      [] sql_type \in {"REAL", "FLOAT4"} -> Ok(Unit("Float4"))
      [] sql_type = "INTERVAL" -> Ok(Unit("Interval"))
      [] OTHER -> Err([kind |-> "UnrecognizedType", sql_type |-> sql_type])

InitSqlType ==
    /\ query = <<>>
    /\ parsed = None
    /\ prepared = None
    /\ GenerateIdle
    /\ ParserIdle
    /\ ColumnIdle
    /\ driver_type \in
            {Some(PgSimple(n)) : n \in TableTypeNames \cup OtherTypeNames}
                \cup {Some(PgEnum("mood", l)) : l \in Strings(EnumLabels, MaxLabels)}
    /\ core_sql_type = None
    /\ legacy_sql_type = None
    /\ PassIdle
    /\ InferIdle

\* check_statement: `SqlType::from_pg_type_info(column.type_info())`
FromPgTypeInfo ==
    /\ IsSome(driver_type)
    /\ core_sql_type = None
    /\ core_sql_type' = Some(Ok(SqlType_from_pg_type_info(driver_type[1])))
    /\ UNCHANGED <<rewriter_vars, generate_vars, parser_vars, column_vars,
                   driver_type, legacy_sql_type, pass_vars, infer_vars>>

\* check_query: `SqlType::from_str(column.type_info().name())`
CheckQueryFromStr ==
    /\ IsSome(driver_type)
    /\ legacy_sql_type = None
    /\ legacy_sql_type' = Some(check_query_SqlType_from_str(driver_type[1].name))
    /\ UNCHANGED <<rewriter_vars, generate_vars, parser_vars, column_vars,
                   driver_type, core_sql_type, pass_vars, infer_vars>>

NextSqlType == FromPgTypeInfo \/ CheckQueryFromStr

SpecSqlType == InitSqlType /\ [][NextSqlType]_vars

\* the mapping the specification states for a type that is not an enum
StatedSqlType(name) ==
    CASE name = "BIT" -> {[tag |-> "Bit", length |-> None]}
      [] name = "VARBIT" -> {[tag |-> "VarBit", length |-> None]}
      [] name = "JSONB" -> {Unit("Jsonb")}
      [] name = "TIME" -> {[tag |-> "Time", tz |-> FALSE]}
      [] name = "TIMETZ" -> {[tag |-> "Time", tz |-> TRUE]}
      [] name \notin TableTypeNames -> {Unit("Unknown")}
      [] OTHER -> {}

\* what a reading must be for C20
ReadAsStated(reading) ==
    (IsSome(reading) /\ driver_type[1].kind = "Simple") =>
        /\ reading[1].ok
        /\ \A t \in StatedSqlType(driver_type[1].name) : reading[1].value = t

\* C20: driver type-name mapping.  BIT is read as Bit, VARBIT as VarBit,
\* JSONB as Jsonb, TIME as Time{tz: false}, TIMETZ as Time{tz: true}, and a
\* name outside the table as Unknown, never as an error.
C20_TypeNameMapping == ReadAsStated(core_sql_type) /\ ReadAsStated(legacy_sql_type)

(***************************************************************************)
(* sql-infer-core/src/inference.rs, inference/nullability.rs and           *)
(* inference/datatypes.rs: the catalog lookups and the passes.  The        *)
(* database is a record: `prepare` is what pool.prepare answers, `catalog` *)
(* maps <<table, column>> to what the query on information_schema.columns  *)
(* answers (an error, no row, or a row); a pair outside its domain has no  *)
(* row.                                                                    *)
(***************************************************************************)
InformationSchema(is_nullable, character_maximum_length, numeric_precision, numeric_precision_radix) ==
    [is_nullable |-> is_nullable,
     character_maximum_length |-> character_maximum_length,
     numeric_precision |-> numeric_precision,
     numeric_precision_radix |-> numeric_precision_radix,
     numeric_scale |-> None,
     column_default |-> None]

\* the lookup with its error taken for a missing row
get_information_schema_lenient(db, table, column) ==
    IF <<table, column>> \in DOMAIN db.catalog /\ db.catalog[<<table, column>>].ok
    THEN db.catalog[<<table, column>>]
    ELSE Ok(None)

\* get_information_schema: `query.fetch_optional(pool).await?`
get_information_schema(db, table, column) ==
    IF <<table, column>> \in DOMAIN db.catalog
    THEN db.catalog[<<table, column>>]
    ELSE Ok(None)

\* `match (left, right)` with the left schema taken when both are present
either_schema_left_first(left, right) ==
    IF IsSome(left) THEN left ELSE right

\* get_all_info_schema, Column::Either: `match (left, right)`
either_schema(left, right) ==
    CASE ~IsSome(left) /\ ~IsSome(right) -> None
      [] ~IsSome(left) /\ IsSome(right) -> right
      [] IsSome(left) /\ ~IsSome(right) -> left
      [] OTHER -> None

\* get_all_info_schema: the schema found is filed under the expression
insert_schema(map, key, schema) ==
    IF IsSome(schema) THEN Insert(map, key, schema[1]) ELSE map

\* get_all_info_schema.  The result carries the map as left by the call and
\* the lookups issued so far; on an error (`?`) nothing more is done.
RECURSIVE get_all_info_schema(_, _, _, _)
get_all_info_schema(db, src, map, log) ==
    LET Found(schema, m, l) ==
            [ok |-> TRUE, schema |-> schema,
             map |-> insert_schema(m, src, schema), lookups |-> l]
    IN  CASE src.kind = "DependsOn" ->
                LET row == get_information_schema(db, src.table, src.column)
                    l == Append(log, <<src.table, src.column>>)
                IN  IF row.ok THEN Found(row.value, map, l)
                    ELSE [ok |-> FALSE, schema |-> None, map |-> map, lookups |-> l]
          [] src.kind = "Maybe" ->
                LET inner == get_all_info_schema(db, src.column, map, log)
                IN  IF inner.ok THEN Found(inner.schema, inner.map, inner.lookups)
                    ELSE inner
          [] src.kind = "Either" ->
                LET left == get_all_info_schema(db, src.left, map, log)
                IN  IF ~left.ok THEN left
                    ELSE LET right == get_all_info_schema(db, src.right,
                                                          left.map, left.lookups)
                         IN  IF ~right.ok THEN right
                             ELSE Found(either_schema(left.schema, right.schema),
                                        right.map, right.lookups)
          [] src.kind = "Unknown" -> Found(None, map, log)
          [] src.kind = "Cast" ->
                LET inner == get_all_info_schema(db, src.source, map, log)
                IN  IF inner.ok THEN Found(inner.schema, inner.map, inner.lookups)
                    ELSE inner
          [] src.kind = "BinaryOp" ->
                LET left == get_all_info_schema(db, src.left, map, log)
                IN  IF ~left.ok THEN left
                    ELSE LET right == get_all_info_schema(db, src.right,
                                                          left.map, left.lookups)
                         IN  IF ~right.ok THEN right
                             ELSE Found(None, right.map, right.lookups)
          [] src.kind = "Value" -> Found(None, map, log)

\* every operator taken as guaranteed not null
not_null_always(op) == Some(TRUE)

\* BinaryOpData::not_null
not_null(op) == Some(FALSE)

RECURSIVE column_is_nullable(_, _)

\* the match on the left operand's nullability with False taken for an
\* answer
left_then_right_short(left, right, schemas) ==
    LET l == column_is_nullable(left, schemas)
    IN  CASE l = "True" -> "True"
          [] l = "False" -> "False"
          [] l = "Unknown" -> "Unknown"

\* column_is_nullable, the match on the left operand's nullability
left_then_right(left, right, schemas) ==
    LET l == column_is_nullable(left, schemas)
    IN  CASE l = "True" -> "True"
          [] l = "False" -> column_is_nullable(right, schemas)
          [] l = "Unknown" -> "Unknown"

\* column_is_nullable, Column::DependsOn with the declaration read backwards
declared_nullability_inverted(col, schemas) ==
    IF col \notin DOMAIN schemas THEN "Unknown"
    ELSE CASE schemas[col].is_nullable = Some(TRUE) -> "False"
           [] schemas[col].is_nullable = Some(FALSE) -> "True"
           [] OTHER -> "Unknown"

\* column_is_nullable, Column::DependsOn
declared_nullability(col, schemas) ==
    IF col \notin DOMAIN schemas THEN "Unknown"
    ELSE CASE schemas[col].is_nullable = Some(TRUE) -> "True"
           [] schemas[col].is_nullable = Some(FALSE) -> "False"
           [] OTHER -> "Unknown"

\* column_is_nullable, Column::Value with every literal taken as not null
value_nullability_never(value_type) == "False"

\* column_is_nullable, Column::Value
value_nullability(value_type) == IF value_type = "Null" THEN "True" ELSE "False"

\* column_is_nullable
column_is_nullable(col, schemas) ==
    CASE col.kind = "DependsOn" -> declared_nullability(col, schemas)
      [] col.kind = "Maybe" -> "True"
      [] col.kind = "Either" -> left_then_right(col.left, col.right, schemas)
      [] col.kind = "Unknown" -> "Unknown"
      [] col.kind = "Cast" -> column_is_nullable(col.source, schemas)
      [] col.kind = "BinaryOp" ->
            IF not_null(col.op) = Some(TRUE) THEN "False"
            ELSE left_then_right(col.left, col.right, schemas)
      [] col.kind = "Value" -> value_nullability(col.value)

\* ColumnNullability::apply
ColumnNullability_apply(schemas, src, column) ==
    [column EXCEPT !.nullable = column_is_nullable(src, schemas)]

\* `as u32` of an i32: the catalog's lengths and precisions are cardinal
\* numbers, which the conversion keeps
AsU32(n) == n

\* includes_cast, Column::Either: Option::zip(..).map(|(left, right)| left || right)
zip_or(left, right) ==
    IF IsSome(left) /\ IsSome(right) THEN Some(left[1] \/ right[1]) ELSE None

RECURSIVE includes_cast(_)

\* includes_cast looking one node below a Maybe only
includes_cast_shallow(column) ==
    CASE column.kind = "DependsOn" -> Some(FALSE)
      [] column.kind = "Maybe" ->
            (CASE column.column.kind = "DependsOn" -> Some(FALSE)
               [] column.column.kind = "Cast" -> Some(TRUE)
               [] OTHER -> None)
      [] column.kind = "Either" ->
            zip_or(includes_cast(column.left), includes_cast(column.right))
      [] column.kind = "Cast" -> Some(TRUE)
      [] column.kind \in {"BinaryOp", "Unknown", "Value"} -> None

\* includes_cast
includes_cast(column) ==
    CASE column.kind = "DependsOn" -> Some(FALSE)
      [] column.kind = "Maybe" -> includes_cast(column.column)
      [] column.kind = "Either" ->
            zip_or(includes_cast(column.left), includes_cast(column.right))
      [] column.kind = "Cast" -> Some(TRUE)
      [] column.kind \in {"BinaryOp", "Unknown", "Value"} -> None

\* the test `includes_cast(column) != Some(true)` left out
cast_guard_open(column) == FALSE

\* TextLength::apply, DecimalPrecision::apply: `if includes_cast(column) !=
\* Some(true) { return; }`
cast_guard(column) == includes_cast(column) # Some(TRUE)

\* TextLength::apply writing a VarChar whatever the variant was
TextLength_apply_retyped(schemas, column, it) ==
    IF column \notin DOMAIN schemas THEN it
    ELSE IF cast_guard(column) THEN it
    ELSE IF /\ it.sql_type.tag \in {"Char", "VarChar"}
            /\ IsSome(schemas[column].character_maximum_length)
         THEN [it EXCEPT !.sql_type =
                    [tag |-> "VarChar",
                     length |-> Some(AsU32(schemas[column].character_maximum_length[1]))]]
         ELSE it

\* TextLength::apply
TextLength_apply(schemas, column, it) ==
    IF column \notin DOMAIN schemas THEN it
    ELSE IF cast_guard(column) THEN it
    ELSE IF /\ it.sql_type.tag \in {"Char", "VarChar"}
            /\ IsSome(schemas[column].character_maximum_length)
         THEN [it EXCEPT !.sql_type.length =
                    Some(AsU32(schemas[column].character_maximum_length[1]))]
         ELSE it

\* DecimalPrecision::apply with each field overwritten on its own
DecimalPrecision_apply_each(schemas, column, it) ==
    IF column \notin DOMAIN schemas THEN it
    ELSE IF cast_guard(column) THEN it
    ELSE IF it.sql_type.tag # "Decimal" THEN it
    ELSE [it EXCEPT
            !.sql_type.precision =
                IF IsSome(schemas[column].numeric_precision)
                THEN Some(AsU32(schemas[column].numeric_precision[1])) ELSE @,
            !.sql_type.precision_radix =
                IF IsSome(schemas[column].numeric_precision_radix)
                THEN Some(AsU32(schemas[column].numeric_precision_radix[1])) ELSE @]

\* DecimalPrecision::apply
DecimalPrecision_apply(schemas, column, it) ==
    IF column \notin DOMAIN schemas THEN it
    ELSE IF cast_guard(column) THEN it
    ELSE IF /\ it.sql_type.tag = "Decimal"
            /\ IsSome(schemas[column].numeric_precision)
            /\ IsSome(schemas[column].numeric_precision_radix)
         THEN [it EXCEPT
                !.sql_type.precision =
                    Some(AsU32(schemas[column].numeric_precision[1])),
                !.sql_type.precision_radix =
                    Some(AsU32(schemas[column].numeric_precision_radix[1]))]
         ELSE it

\* pass.apply(&map, source, item), by the pass registered
apply(pass, schemas, src, it) ==
    CASE pass = "ColumnNullability" -> ColumnNullability_apply(schemas, src, it)
      [] pass = "TextLength" -> TextLength_apply(schemas, src, it)
      [] pass = "DecimalPrecision" -> DecimalPrecision_apply(schemas, src, it)

\* update_with_info: `for pass in &passes.information_schema`
RECURSIVE apply_all(_, _, _, _)
apply_all(pass_list, schemas, src, it) ==
    IF pass_list = <<>> THEN it
    ELSE apply_all(Tail(pass_list), schemas, src,
                   apply(Head(pass_list), schemas, src, it))

\* update_with_info: the item as left by the call, its local `map` and the
\* lookups issued
update_with_info(db, src, it, pass_list, log) ==
    LET found == get_all_info_schema(db, src, EmptyMap, log)
    IN  IF ~found.ok
        THEN [ok |-> FALSE, item |-> it, map |-> found.map,
              lookups |-> found.lookups]
        ELSE [ok |-> TRUE, item |-> apply_all(pass_list, found.map, src, it),
              map |-> found.map, lookups |-> found.lookups]

(***************************************************************************)
(* update_with_info as a state machine: a provenance expression, an item   *)
(* as check_statement built it, a catalog and a list of passes are given;  *)
(* one step runs the lookups and the passes.  pass_item keeps the item as  *)
(* given, `updated` holds the item as left by the call.                    *)
(***************************************************************************)
MaxPassNodes == 3

ValueTypes == {"Boolean", "Int", "Float", "String", "Null"}

\* the provenance expressions without a child
PassLeaves ==
    {Column_depends_on(<<"a">>, <<"c">>), Column_depends_on(<<"b">>, <<"c">>),
     Column_unknown(<<"?">>)}
        \cup {Column_value(v) : v \in ValueTypes}

\* the expressions of exactly n nodes
RECURSIVE PassColumnsOfSize(_)
PassColumnsOfSize(n) ==
    IF n = 1 THEN PassLeaves
    ELSE {Column_maybe(x) : x \in PassColumnsOfSize(n - 1)}
            \cup {Column_cast(x, "Text") : x \in PassColumnsOfSize(n - 1)}
            \cup UNION {{Column_either(x, y) :
                            x \in PassColumnsOfSize(k),
                            y \in PassColumnsOfSize(n - 1 - k)} :
                        k \in 1..(n - 2)}
            \cup UNION {{Column_bin_op(BinaryOpData_from("Plus"), x, y) :
                            x \in PassColumnsOfSize(k),
                            y \in PassColumnsOfSize(n - 1 - k)} :
                        k \in 1..(n - 2)}

CatalogKeys == {<<(<<"a">>), (<<"c">>)>>, <<(<<"b">>), (<<"c">>)>>}

\* rows of information_schema.columns: a nullable column, a NOT NULL column,
\* both with a length and a precision, a NOT NULL column with a precision
\* and no radix, and a row with every field NULL
CatalogRows ==
    {InformationSchema(Some(TRUE), Some(10), Some(8), Some(10)),
     InformationSchema(Some(FALSE), Some(10), Some(8), Some(10)),
     InformationSchema(Some(FALSE), None, Some(8), None),
     InformationSchema(None, None, None, None)}

\* what one lookup answers: an error, no row, or a row
RowOutcomes == {Err("database")} \cup {Ok(None)} \cup {Ok(Some(r)) : r \in CatalogRows}

Catalogs == [CatalogKeys -> RowOutcomes]

\* Generate::new: each pass is registered or not, in this order
PassLists ==
    {SelectSeq(<<"ColumnNullability", "DecimalPrecision", "TextLength">>,
               LAMBDA p : p \in enabled) :
        enabled \in SUBSET {"ColumnNullability", "DecimalPrecision", "TextLength"}}

\* the types of the items refined
PassItemTypes == {SqlType_from_str("VARCHAR"), SqlType_from_str("CHAR"),
                  SqlType_from_str("NUMERIC"), SqlType_from_str("INT4")}

InitPass ==
    /\ query = <<>>
    /\ parsed = None
    /\ prepared = None
    /\ GenerateIdle
    /\ ParserIdle
    /\ ColumnIdle
    /\ SqlTypeIdle
    /\ \E n \in 1..MaxPassNodes : \E c \in PassColumnsOfSize(n) : pass_source = Some(c)
    /\ \E t \in PassItemTypes : pass_item = Some(QueryItem(<<"c">>, t, "Unknown"))
    /\ updated = None
    /\ \E c \in Catalogs : pool = Some([prepare |-> Err("unused"), catalog |-> c])
    /\ passes \in PassLists
    /\ lookups = <<>>
    /\ ast = None
    /\ run = None
    /\ query_types = None

\* update_with_info(pool, source, item, passes)
UpdateWithInfo ==
    /\ IsSome(pass_source)
    /\ updated = None
    /\ LET r == update_with_info(pool[1], pass_source[1], pass_item[1], passes, lookups)
       IN  /\ updated' = Some([ok |-> r.ok, item |-> r.item, map |-> r.map])
           /\ lookups' = r.lookups
    /\ UNCHANGED <<rewriter_vars, generate_vars, parser_vars, column_vars,
                   sqltype_vars, pass_source, pass_item,
                   pool, passes, ast, run, query_types>>

NextPass == UpdateWithInfo

SpecPass == InitPass /\ [][NextPass]_vars

\* update_with_info has returned Ok with ColumnNullability registered
NullabilityApplied ==
    /\ IsSome(updated)
    /\ updated[1].ok
    /\ \E k \in 1..Len(passes) : passes[k] = "ColumnNullability"

\* what the catalog declares for a table and column
Declared(table, column) ==
    LET key == <<table, column>>
        row == pool[1].catalog[key]
    IN  IF key \notin DOMAIN pool[1].catalog THEN "Unknown"
        ELSE IF ~row.ok \/ row.value = None THEN "Unknown"
        ELSE IF row.value[1].is_nullable = Some(TRUE) THEN "True"
        ELSE IF row.value[1].is_nullable = Some(FALSE) THEN "False"
        ELSE "Unknown"

\* C11: ColumnNullability on DependsOn{t,c} gives False when the catalog row
\* of (t,c) says NOT NULL, True when it says nullable, Unknown when there is
\* no row or the row's is_nullable is missing.
C11_DependsOnNullability ==
    (NullabilityApplied /\ pass_source[1].kind = "DependsOn") =>
        updated[1].item.nullable =
            Declared(pass_source[1].table, pass_source[1].column)

\* C11 witness: DependsOn{a,c} with a.c NOT NULL has been refined to False
C11_Witness ==
    /\ NullabilityApplied
    /\ pass_source[1] = Column_depends_on(<<"a">>, <<"c">>)
    /\ Declared(<<"a">>, <<"c">>) = "False"
    /\ updated[1].item.nullable = "False"

\* `select count(*) as n from orders`
SelectCountAsN ==
    [kind |-> "Query", with |-> FALSE,
     body |-> [kind |-> "Select",
               projection |->
                  <<[kind |-> "ExprWithAlias",
                     expr |-> [kind |-> "Function",
                               name |-> <<Ident(<<"c", "o", "u", "n", "t">>)>>],
                     alias |-> Ident(<<"n">>)]>>,
               from |-> <<[relation |->
                              [kind |-> "Table",
                               name |-> <<Ident(<<"o", "r", "d", "e", "r", "s">>)>>,
                               alias |-> None],
                           joins |-> <<>>]>>]]

\* C12: catalog-independent cases.  ColumnNullability gives True on Maybe(x)
\* for every x and catalog, True on Value(Null), False on every other Value;
\* the provenance of n in `select count(*) as n from orders` is such a Value.
C12_CatalogIndependent ==
    /\ NullabilityApplied =>
        /\ pass_source[1].kind = "Maybe" => updated[1].item.nullable = "True"
        /\ pass_source[1].kind = "Value" =>
              updated[1].item.nullable =
                  (IF pass_source[1].value = "Null" THEN "True" ELSE "False")
    /\ LET found == find_fields(SelectCountAsN)
       IN  /\ found.ok
           /\ DOMAIN found.value = {<<"n">>}
           /\ found.value[<<"n">>].kind = "Value"
           /\ found.value[<<"n">>].value # "Null"

\* C12 witness: Maybe(DependsOn{a,c}) with a.c NOT NULL has been refined to
\* True
C12_Witness ==
    /\ NullabilityApplied
    /\ pass_source[1] = Column_maybe(Column_depends_on(<<"a">>, <<"c">>))
    /\ Declared(<<"a">>, <<"c">>) = "False"
    /\ updated[1].item.nullable = "True"

\* the expression has a Cast node
RECURSIVE HasCast(_)
HasCast(column) ==
    CASE column.kind = "Cast" -> TRUE
      [] column.kind = "Maybe" -> HasCast(column.column)
      [] column.kind \in {"Either", "BinaryOp"} ->
            HasCast(column.left) \/ HasCast(column.right)
      [] OTHER -> FALSE

\* C14: cast guard of the refinement passes.  With a provenance that has no
\* Cast node, DecimalPrecision and TextLength leave the item unchanged: name
\* and sql_type are as given, and so is nullable unless ColumnNullability is
\* registered too.
C14_CastGuard ==
    (IsSome(updated) /\ updated[1].ok /\ ~HasCast(pass_source[1])) =>
        /\ updated[1].item.name = pass_item[1].name
        /\ updated[1].item.sql_type = pass_item[1].sql_type
        /\ (\A k \in 1..Len(passes) : passes[k] \in {"DecimalPrecision", "TextLength"})
                => updated[1].item = pass_item[1]

\* C14 witness: TextLength has run on a VARCHAR item whose provenance is
\* DependsOn{a,c}, a.c having a length in the catalog
C14_Witness ==
    /\ IsSome(updated)
    /\ updated[1].ok
    /\ passes = <<"DecimalPrecision", "TextLength">>
    /\ pass_source[1] = Column_depends_on(<<"a">>, <<"c">>)
    /\ pass_item[1].sql_type.tag = "VarChar"
    /\ pool[1].catalog[<<(<<"a">>), (<<"c">>)>>].ok
    /\ pool[1].catalog[<<(<<"a">>), (<<"c">>)>>].value # None
    /\ IsSome(pool[1].catalog[<<(<<"a">>), (<<"c">>)>>].value[1].character_maximum_length)
    /\ updated[1].item = pass_item[1]

(***************************************************************************)
(* check_statement end to end.  The query text is given by what the SQL    *)
(* parser makes of it (`ast`) and by what the database answers to prepare  *)
(* and to the catalog queries (`pool`).  For a SELECT the database reports *)
(* one column per projected item, named as PostgreSQL names it, a wildcard *)
(* giving the column c of every table of the FROM list.                    *)
(***************************************************************************)
MaxOutputs == 2

\* `a.c + a.c`
SumExpr ==
    [kind |-> "BinaryOp", op |-> "Plus",
     left |-> CompoundIdentifier(<<Ident(<<"a">>), Ident(<<"c">>)>>),
     right |-> CompoundIdentifier(<<Ident(<<"a">>), Ident(<<"c">>)>>)]

\* `count(*)`
CountExpr == [kind |-> "Function", name |-> <<Ident(<<"c", "o", "u", "n", "t">>)>>]

\* `$1::text`
CastPlaceholderExpr ==
    [kind |-> "Cast",
     expr |-> [kind |-> "Value", value |-> [kind |-> "Placeholder"]],
     data_type |-> "Text"]

UnnamedExpr(expr) == [kind |-> "UnnamedExpr", expr |-> expr]

ExprWithAlias(expr, alias) ==
    [kind |-> "ExprWithAlias", expr |-> expr, alias |-> Ident(alias)]

\* the projected items: a.c, b.c, c, a.c + a.c as s, a.c + a.c,
\* count(*) as n, $1::text as v, $1::text as c, *
InferItems ==
    {UnnamedExpr(CompoundIdentifier(<<Ident(<<"a">>), Ident(<<"c">>)>>)),
     UnnamedExpr(CompoundIdentifier(<<Ident(<<"b">>), Ident(<<"c">>)>>)),
     UnnamedExpr(Identifier(Ident(<<"c">>))),
     ExprWithAlias(SumExpr, <<"s">>),
     UnnamedExpr(SumExpr),
     ExprWithAlias(CountExpr, <<"n">>),
     ExprWithAlias(CastPlaceholderExpr, <<"v">>),
     ExprWithAlias(CastPlaceholderExpr, <<"c">>),
     [kind |-> "Wildcard"]}

PlainTableFactor(name) == [kind |-> "Table", name |-> <<Ident(name)>>, alias |-> None]

\* no FROM clause, `from a`, and `from a <op> b` for every supported join
\* operator
InferFromLists ==
    {<<>>, <<[relation |-> PlainTableFactor(<<"a">>), joins |-> <<>>]>>}
        \cup {<<[relation |-> PlainTableFactor(<<"a">>),
                 joins |-> <<[relation |-> PlainTableFactor(<<"b">>),
                              join_operator |-> op]>>]>> :
                op \in JoinOperators \ UnsupportedJoinOperators}

\* statements find_fields rejects: a query with a WITH clause, and a
\* statement that is no query
RejectedStatements ==
    {[kind |-> "Query", with |-> TRUE,
      body |-> [kind |-> "Select",
                projection |-> <<UnnamedExpr(Identifier(Ident(<<"c">>)))>>,
                from |-> <<[relation |-> PlainTableFactor(<<"a">>), joins |-> <<>>]>>]],
     [kind |-> "CreateTable"]}

\* the number of tables of a FROM list
RECURSIVE table_count(_)
table_count(from) ==
    IF from = <<>> THEN 0
    ELSE 1 + Len(Head(from).joins) + table_count(Tail(from))

\* the columns PostgreSQL describes for one projected item
described_columns(sel_item, from) ==
    LET Col(name, type) == [name |-> name, type_info |-> PgSimple(type)]
    IN  CASE sel_item.kind = "Wildcard" ->
                [k \in 1..table_count(from) |-> Col(<<"c">>, "VARCHAR")]
          [] sel_item.kind = "ExprWithAlias" /\ sel_item.expr.kind = "Cast" ->
                <<Col(sel_item.alias.value, "TEXT")>>
          [] sel_item.kind = "ExprWithAlias" /\ sel_item.expr.kind = "Function" ->
                <<Col(sel_item.alias.value, "INT8")>>
          [] sel_item.kind = "ExprWithAlias" ->
                <<Col(sel_item.alias.value, "INT4")>>
          [] sel_item.expr.kind = "Identifier" ->
                <<Col(sel_item.expr.ident.value, "VARCHAR")>>
          [] sel_item.expr.kind = "CompoundIdentifier" ->
                <<Col(sel_item.expr.idents[Len(sel_item.expr.idents)].value, "VARCHAR")>>
          [] OTHER -> <<Col(<<"?", "c", "o", "l", "u", "m", "n", "?">>, "INT4")>>

\* prepared.columns() of a statement
RECURSIVE described_projection(_, _)
described_projection(projection, from) ==
    IF projection = <<>> THEN <<>>
    ELSE described_columns(Head(projection), from)
            \o described_projection(Tail(projection), from)

\* the item holds the placeholder $1
has_placeholder(sel_item) ==
    sel_item.kind = "ExprWithAlias" /\ sel_item.expr.kind = "Cast"

\* what pool.prepare answers for a statement when it succeeds
describe(stmt) ==
    IF stmt.kind = "Query"
    THEN [columns |-> described_projection(stmt.body.projection, stmt.body.from),
          parameters |->
            IF \E k \in 1..Len(stmt.body.projection) :
                    has_placeholder(stmt.body.projection[k])
            THEN <<PgSimple("TEXT")>> ELSE <<>>]
    ELSE [columns |-> <<>>, parameters |-> <<>>]

\* catalog rows of the inference runs: a nullable and a NOT NULL column
InferRowOutcomes ==
    {Err("database"), Ok(None),
     Ok(Some(InformationSchema(Some(TRUE), Some(10), Some(8), Some(10)))),
     Ok(Some(InformationSchema(Some(FALSE), Some(10), Some(8), Some(10))))}

\* the pass lists of the inference runs: none, nullability, all three
InferPassLists ==
    {<<>>, <<"ColumnNullability">>,
     <<"ColumnNullability", "DecimalPrecision", "TextLength">>}

\* `let v = value; body(v)`: the value is computed once
let(value, body(_)) == CHOOSE out \in {body(v) : v \in {value}} : TRUE

\* the field of some other name given for a name without field
get_field_or_other(field_map, name) ==
    IF name \in DOMAIN field_map THEN Some(field_map[name])
    ELSE IF DOMAIN field_map = {} THEN None
    ELSE Some(field_map[CHOOSE other \in DOMAIN field_map : TRUE])

\* apply_passes: `fields.get(&output.name)`
get_field(field_map, name) ==
    IF name \in DOMAIN field_map THEN Some(field_map[name]) ELSE None

\* apply_passes: `for output in output_types.iter_mut()`, from the k-th
\* output on; `errors` collects the names without field
RECURSIVE apply_passes_loop(_, _, _, _, _, _, _)
apply_passes_loop(db, field_map, output_types, k, pass_list, log, errors) ==
    IF k > Len(output_types)
    THEN [ok |-> TRUE, output_types |-> output_types, lookups |-> log,
          errors |-> errors]
    ELSE IF IsSome(get_field(field_map, output_types[k].name))
    THEN LET updated_output(r) ==
                IF ~r.ok
                THEN [ok |-> FALSE, output_types |-> output_types,
                      lookups |-> r.lookups, errors |-> errors]
                ELSE apply_passes_loop(db, field_map,
                        [output_types EXCEPT ![k] = r.item], k + 1, pass_list,
                        r.lookups, errors)
         IN  let(update_with_info(db, get_field(field_map, output_types[k].name)[1],
                                  output_types[k], pass_list, log),
                 updated_output)
    ELSE apply_passes_loop(db, field_map, output_types, k + 1, pass_list, log,
                           Append(errors, output_types[k].name))

\* apply_passes; `parse` is what to_ast(query) gives
apply_passes(db, parse, output_types, pass_list) ==
    LET Failed == [ok |-> FALSE, output_types |-> output_types,
                   lookups |-> <<>>, errors |-> <<>>]
    IN  IF ~parse.ok THEN Failed
        ELSE IF parse.value = <<>> THEN Failed
        ELSE LET with_fields(found) ==
                    IF ~found.ok THEN Failed
                    ELSE apply_passes_loop(db, found.value, output_types, 1,
                                           pass_list, <<>>, <<>>)
             IN  let(find_fields(parse.value[1]), with_fields)

\* check_statement: the result, the lookups issued and the names warned of
check_statement(db, parse, pass_list) ==
    IF ~db.prepare.ok
    THEN [result |-> Err("prepare"), lookups |-> <<>>, errors |-> <<>>]
    ELSE LET built == result_types(db.prepare.value.columns)
             inputs == input_types(db.prepare.value.parameters)
             applied == apply_passes(db, parse, built, pass_list)
         IN  [result |-> IF applied.ok
                         THEN Ok([input |-> inputs, output |-> applied.output_types])
                         ELSE Err("apply_passes"),
              lookups |-> applied.lookups,
              errors |-> applied.errors]

\* PostgreSQL accepts the statement: every table named by an item is in the
\* FROM list, an unqualified c is not ambiguous, and count(*) stands with
\* no plain column
accepted(stmt) ==
    stmt.kind = "Query" =>
        LET projection == stmt.body.projection
            joined == table_count(stmt.body.from) > 1
            Mentions(sel_item, table) ==
                /\ sel_item.kind # "Wildcard"
                /\ \/ /\ sel_item.expr.kind = "CompoundIdentifier"
                      /\ sel_item.expr.idents[1].value = table
                   \/ /\ sel_item.expr.kind = "BinaryOp"
                      /\ sel_item.expr.left.idents[1].value = table
            Aggregate(sel_item) ==
                sel_item.kind # "Wildcard" /\ sel_item.expr.kind = "Function"
            Constant(sel_item) ==
                sel_item.kind # "Wildcard" /\ sel_item.expr.kind = "Cast"
        IN  /\ \A k \in 1..Len(projection) :
                  /\ Mentions(projection[k], <<"a">>) => stmt.body.from # <<>>
                  /\ Mentions(projection[k], <<"b">>) => joined
                  /\ (/\ projection[k].kind = "UnnamedExpr"
                      /\ projection[k].expr.kind = "Identifier") =>
                        (stmt.body.from # <<>> /\ ~joined)
                  /\ projection[k].kind = "Wildcard" => stmt.body.from # <<>>
            /\ (\E k \in 1..Len(projection) : Aggregate(projection[k])) =>
                  \A k \in 1..Len(projection) :
                        Aggregate(projection[k]) \/ Constant(projection[k])

\* the database of a run: prepare fails, or describes the statement
Pools(stmt, described) ==
    {[prepare |-> p, catalog |-> c] :
        p \in {Err("prepare")} \cup (IF accepted(stmt) THEN {Ok(described)} ELSE {}),
        c \in [CatalogKeys -> InferRowOutcomes]}

InitInfer ==
    /\ query = <<>>
    /\ parsed = None
    /\ prepared = None
    /\ GenerateIdle
    /\ ParserIdle
    /\ ColumnIdle
    /\ SqlTypeIdle
    /\ PassIdle
    /\ \/ \E m \in 1..MaxOutputs :
            \E p \in [1..m -> InferItems], f \in InferFromLists :
                /\ ast = Some(Ok(<<SelectStatement(p, f)>>))
                /\ \E db \in Pools(SelectStatement(p, f), describe(SelectStatement(p, f))) :
                        pool = Some(db)
       \/ \E s \in RejectedStatements :
                /\ ast = Some(Ok(<<s>>))
                /\ \E db \in Pools(s, describe(s)) : pool = Some(db)
       \/ /\ ast \in {Some(Err("sqlparser")), Some(Ok(<<>>))}
          /\ \E db \in Pools([kind |-> "Text"], [columns |-> <<>>, parameters |-> <<>>]) :
                pool = Some(db)
    /\ passes \in InferPassLists
    /\ lookups = <<>>
    /\ run = None
    /\ query_types = None

\* SqlInfer::infer_types: check_statement(pool, query, &self.passes)
CheckStatement ==
    /\ IsSome(ast)
    /\ query_types = None
    /\ \E r \in {check_statement(pool[1], ast[1], passes)} :
           /\ query_types' = Some(r.result)
           /\ lookups' = r.lookups
           /\ run' = Some([errors |-> r.errors])
    /\ UNCHANGED <<rewriter_vars, generate_vars, parser_vars, column_vars,
                   sqltype_vars, pass_vars, pool, passes, ast>>

NextInfer == CheckStatement

SpecInfer == InitInfer /\ [][NextInfer]_vars

(***************************************************************************)
(* Properties of check_statement                                           *)
(***************************************************************************)
\* check_statement has returned
Checked == IsSome(query_types)

Registered(pass) == \E k \in 1..Len(passes) : passes[k] = pass

\* the statement the parser gave, when it gave one
HasStatement == ast[1].ok /\ ast[1].value # <<>>

Stmt == ast[1].value[1]

IsSelect == HasStatement /\ Stmt.kind = "Query" /\ ~Stmt.with

\* the output items as built from prepared.columns(), before any pass
Built ==
    [k \in 1..Len(pool[1].prepare.value.columns) |->
        [name |-> pool[1].prepare.value.columns[k].name,
         sql_type |-> SqlType_from_pg_type_info(pool[1].prepare.value.columns[k].type_info),
         nullable |-> "Unknown"]]

Output == query_types[1].value.output

Input == query_types[1].value.input

\* `select t.c from a <op> b`, one item
QualifiedOverJoin ==
    /\ IsSelect
    /\ Len(Stmt.body.projection) = 1
    /\ Stmt.body.projection[1].kind = "UnnamedExpr"
    /\ Stmt.body.projection[1].expr.kind = "CompoundIdentifier"
    /\ Len(Stmt.body.from) = 1
    /\ Len(Stmt.body.from[1].joins) = 1

\* C13: outer-join nullability end to end.  With ColumnNullability enabled,
\* for `select t.c from a <op> b` the output is nullable True when t is on a
\* side the join null-extends (right of LEFT, left of RIGHT, both sides of
\* FULL OUTER and CROSS), whatever the catalog declares; otherwise it is the
\* catalog's declaration for t.c.
C13_OuterJoinNullability ==
    (Checked /\ query_types[1].ok /\ Registered("ColumnNullability")
        /\ QualifiedOverJoin) =>
        LET t == Stmt.body.projection[1].expr.idents[1].value
            c == Stmt.body.projection[1].expr.idents[2].value
            flags == StatedFlags(Stmt.body.from[1].joins[1].join_operator)
            extended == IF t = NameOf(Stmt.body.from[1].relation)
                        THEN flags[1] ELSE flags[2]
        IN  /\ Len(Output) = 1
            /\ Output[1].nullable = (IF extended THEN "True" ELSE Declared(t, c))

\* C13 witness: `select a.c from a left join b` with a.c NOT NULL gives False
C13_Witness ==
    /\ Checked
    /\ query_types[1].ok
    /\ Registered("ColumnNullability")
    /\ QualifiedOverJoin
    /\ Stmt.body.projection[1].expr.idents[1].value = <<"a">>
    /\ Stmt.body.from[1].joins[1].join_operator = "Left"
    /\ Declared(<<"a">>, <<"c">>) = "False"
    /\ Output[1].nullable = "False"

\* `select $1::text as v`
SelectCastPlaceholder ==
    SelectStatement(<<ExprWithAlias(CastPlaceholderExpr, <<"v">>)>>, <<>>)

\* C15: cast placeholder end to end.  Inferring `select $1::text as v` with
\* ColumnNullability enabled returns one input of type Text, nullable
\* Unknown, and the output {v, Text, False}.
C15_CastPlaceholder ==
    (Checked /\ pool[1].prepare.ok /\ Registered("ColumnNullability")
        /\ ast[1] = Ok(<<SelectCastPlaceholder>>)) =>
        /\ query_types[1].ok
        /\ Len(Input) = 1
        /\ Input[1].sql_type = Unit("Text")
        /\ Input[1].nullable = "Unknown"
        /\ Output = <<QueryItem(<<"v">>, Unit("Text"), "False")>>

\* the fields of the statement
FieldMap == find_fields(Stmt).value

\* the pairs of the DependsOn nodes of an expression, left to right
RECURSIVE DependsOnPairs(_)
DependsOnPairs(column) ==
    CASE column.kind = "DependsOn" -> <<(<<column.table, column.column>>)>>
      [] column.kind = "Maybe" -> DependsOnPairs(column.column)
      [] column.kind = "Cast" -> DependsOnPairs(column.source)
      [] column.kind \in {"Either", "BinaryOp"} ->
            DependsOnPairs(column.left) \o DependsOnPairs(column.right)
      [] OTHER -> <<>>

LookupFails(pair) ==
    pair \in DOMAIN pool[1].catalog /\ ~pool[1].catalog[pair].ok

\* the name has a field
Resolved(field_map, name) == name \in DOMAIN field_map

\* the pairs looked up for the resolved output columns from the k-th on
RECURSIVE PairsFrom(_, _, _)
PairsFrom(field_map, built, k) ==
    IF k > Len(built) THEN <<>>
    ELSE (IF Resolved(field_map, built[k].name)
          THEN DependsOnPairs(field_map[built[k].name]) ELSE <<>>)
            \o PairsFrom(field_map, built, k + 1)

\* the names without field, from the k-th output column on
RECURSIVE MissedFrom(_, _, _)
MissedFrom(field_map, built, k) ==
    IF k > Len(built) THEN <<>>
    ELSE (IF Resolved(field_map, built[k].name) THEN <<>> ELSE <<built[k].name>>)
            \o MissedFrom(field_map, built, k + 1)

\* the pairs to look up for the resolved output columns, in order
Pairs == PairsFrom(FieldMap, Built, 1)

\* prepare, the parser and find_fields have all succeeded
PassesReached ==
    /\ Checked
    /\ pool[1].prepare.ok
    /\ HasStatement
    /\ find_fields(Stmt).ok

\* C16: a per-column lookup miss is not fatal.  The inference fails only
\* when a lookup for a resolved column fails; when it succeeds, an output
\* whose name has no field is returned as built (driver type, nullable
\* Unknown), its name is warned of, no lookup is issued for it, and the
\* resolved columns are refined.
C16_LookupMissNotFatal ==
    PassesReached =>
        \A field_map \in {FieldMap}, built \in {Built} :
            \A pairs \in {PairsFrom(field_map, built, 1)} :
                /\ ~query_types[1].ok =>
                        \E i \in 1..Len(pairs) : LookupFails(pairs[i])
                /\ query_types[1].ok =>
                    /\ Len(Output) = Len(built)
                    /\ lookups = pairs
                    /\ run[1].errors = MissedFrom(field_map, built, 1)
                    /\ \A k \in 1..Len(built) :
                          IF Resolved(field_map, built[k].name)
                          THEN Output[k] =
                                update_with_info(pool[1], field_map[built[k].name],
                                                 built[k], passes, <<>>).item
                          ELSE Output[k] = built[k]

\* C16 witness: in `select a.c + a.c, a.c from a` with a.c NOT NULL the
\* first column has no field and is returned as built, the second is refined
C16_Witness ==
    /\ PassesReached
    /\ query_types[1].ok
    /\ Registered("ColumnNullability")
    /\ Len(Built) = 2
    /\ ~Resolved(FieldMap, Built[1].name)
    /\ Resolved(FieldMap, Built[2].name)
    /\ Output[1] = Built[1]
    /\ Output[2].nullable = "False"
    /\ lookups = <<(<<(<<"a">>), (<<"c">>)>>)>>

\* C17: errors abort the whole inference.  When prepare fails, the parser
\* rejects the text or gives no statement, or find_fields rejects the
\* statement, an error is returned and no lookup is issued; when a lookup
\* fails, an error is returned and that lookup is the last one issued; a
\* result is returned only when every step succeeded.
C17_ErrorsAbort ==
    Checked =>
        /\ (~pool[1].prepare.ok \/ ~HasStatement \/ ~find_fields(Stmt).ok) =>
                ~query_types[1].ok /\ lookups = <<>>
        /\ PassesReached =>
            \A pairs \in {Pairs} :
                /\ (\E i \in 1..Len(pairs) : LookupFails(pairs[i])) =>
                        /\ ~query_types[1].ok
                        /\ lookups # <<>>
                        /\ LookupFails(lookups[Len(lookups)])
                /\ \A i \in 1..(Len(lookups) - 1) : ~LookupFails(lookups[i])
                /\ query_types[1].ok =>
                        \A i \in 1..Len(lookups) : ~LookupFails(lookups[i])
        /\ ~query_types[1].ok => DOMAIN query_types[1] = {"ok", "error"}

\* C17 witness: two columns are looked up: the first lookup succeeds,
\* the second fails, and an error is returned
C17_Witness ==
    /\ PassesReached
    /\ ~query_types[1].ok
    /\ Len(lookups) = 2
    /\ ~LookupFails(lookups[1])
    /\ LookupFails(lookups[2])

\* C18: order and shape of QueryTypes.  A result has one output item per
\* column reported by prepare, in the same order and with the same names,
\* whatever passes are registered; the input items are as built from the
\* parameter list, nullable Unknown.
C18_OrderAndShape ==
    (Checked /\ query_types[1].ok) =>
        LET columns == pool[1].prepare.value.columns
            parameters == pool[1].prepare.value.parameters
        IN  /\ Len(Output) = Len(columns)
            /\ \A k \in 1..Len(columns) : Output[k].name = columns[k].name
            /\ Len(Input) = Len(parameters)
            /\ \A k \in 1..Len(parameters) :
                  /\ Input[k].name = parameters[k].name
                  /\ Input[k].sql_type = SqlType_from_pg_type_info(parameters[k])
                  /\ Input[k].nullable = "Unknown"

\* C18 witness: `select a.c, $1::text as v from a` with the three passes
\* registered: two outputs c and v in this order, one input
C18_Witness ==
    /\ Checked
    /\ query_types[1].ok
    /\ Len(passes) = 3
    /\ Len(Output) = 2
    /\ Output[1].name = <<"c">>
    /\ Output[2].name = <<"v">>
    /\ Output[1].nullable # "Unknown"
    /\ Len(Input) = 1

\* C19: catalog lookups are memoized.  During one inference at most one
\* lookup is issued for each (table, column) pair.
C19_LookupsMemoized ==
    \A i, j \in 1..Len(lookups) : lookups[i] = lookups[j] => i = j

(***************************************************************************)
(* Properties of update_with_info over whole provenance trees              *)
(***************************************************************************)
\* the stated fold of two operands' nullabilities
StatedFold(l, r) ==
    CASE l = "True" -> "True"
      [] l = "False" -> r
      [] OTHER -> "Unknown"

\* the stated nullability of a provenance tree, read off the catalog
RECURSIVE StatedNullable(_)
StatedNullable(col) ==
    CASE col.kind = "DependsOn" -> Declared(col.table, col.column)
      [] col.kind = "Maybe" -> "True"
      [] col.kind = "Either" ->
            StatedFold(StatedNullable(col.left), StatedNullable(col.right))
      [] col.kind = "BinaryOp" ->
            IF not_null(col.op) = Some(TRUE) THEN "False"
            ELSE StatedFold(StatedNullable(col.left), StatedNullable(col.right))
      [] col.kind = "Cast" -> StatedNullable(col.source)
      [] col.kind = "Unknown" -> "Unknown"
      [] col.kind = "Value" -> IF col.value = "Null" THEN "True" ELSE "False"

\* C21: ColumnNullability is the stated fold over the whole provenance
\* tree: Either(l, r) is True if l is True, r's nullability if l is False,
\* Unknown if l is Unknown; BinaryOp is False when op.not_null() is
\* Some(true) and otherwise folds as Either; Cast is its source's; Unknown
\* is Unknown.  The nullability written to the item is this fold for every
\* tree and catalog.
C21_NullabilityFold ==
    NullabilityApplied =>
        updated[1].item.nullable = StatedNullable(pass_source[1])

\* C21 witness: Either(DependsOn{a,c}, DependsOn{b,c}) with a.c NOT NULL and
\* b.c nullable has been refined to True, the right operand's nullability
C21_Witness ==
    /\ NullabilityApplied
    /\ pass_source[1] = Column_either(Column_depends_on(<<"a">>, <<"c">>),
                                      Column_depends_on(<<"b">>, <<"c">>))
    /\ Declared(<<"a">>, <<"c">>) = "False"
    /\ Declared(<<"b">>, <<"c">>) = "True"
    /\ updated[1].item.nullable = "True"

(***************************************************************************)
(* Properties of the resolver over several FROM items                      *)
(***************************************************************************)
\* the left-to-right Either-fold of the hits after the k-th into `result`
RECURSIVE EitherFold(_, _, _)
EitherFold(hits, k, result) ==
    IF k > Len(hits) THEN result
    ELSE EitherFold(hits, k + 1, Column_either(result, hits[k][1]))

\* the find_table_column(t, c) results of the FROM items that are not None
Hits(tables, t, c) ==
    SelectSeq([k \in 1..Len(tables) |-> find_table_column(tables[k], t, c)],
              LAMBDA hit : IsSome(hit))

\* C22: qualified identifier over several FROM items.  For `select t.c` and
\* a FROM list of N >= 1 table trees the field c is the left-to-right
\* Either-fold of the find_table_column(t, c) results that are not None (a
\* single hit bare), and there is no field only when every tree gives None,
\* wherever the trees without a hit stand.
C22_QualifiedOverFromItems ==
    (/\ IsSome(fields)
     /\ Len(Projection) = 1
     /\ Projection[1].kind = "UnnamedExpr"
     /\ Qualified(Projection[1].expr)
     /\ Len(From) >= 1) =>
        LET c == ColumnOf(Projection[1].expr)
            hits == Hits(identify_tables(From), QualifierOf(Projection[1].expr), c)
        IN  /\ fields[1].ok
            /\ IF hits = <<>> THEN c \notin DOMAIN fields[1].value
               ELSE /\ c \in DOMAIN fields[1].value
                    /\ fields[1].value[c] = EitherFold(hits, 2, hits[1][1])

\* the nodes of a provenance tree
RECURSIVE Nodes(_)
Nodes(col) ==
    {col} \cup
        CASE col.kind \in {"Maybe"} -> Nodes(col.column)
          [] col.kind = "Cast" -> Nodes(col.source)
          [] col.kind \in {"Either", "BinaryOp"} -> Nodes(col.left) \cup Nodes(col.right)
          [] OTHER -> {}

\* the row the catalog holds for a table and column, if any
CatalogRow(table, column) ==
    IF <<table, column>> \in DOMAIN pool[1].catalog
            /\ pool[1].catalog[<<table, column>>].ok
    THEN pool[1].catalog[<<table, column>>].value
    ELSE None

\* the stated aggregate schema of a node
RECURSIVE StatedAggregate(_)
StatedAggregate(col) ==
    CASE col.kind = "DependsOn" -> CatalogRow(col.table, col.column)
      [] col.kind = "Maybe" -> StatedAggregate(col.column)
      [] col.kind = "Cast" -> StatedAggregate(col.source)
      [] col.kind = "Either" ->
            LET left == StatedAggregate(col.left)
                right == StatedAggregate(col.right)
            IN  IF IsSome(left) /\ ~IsSome(right) THEN left
                ELSE IF ~IsSome(left) /\ IsSome(right) THEN right
                ELSE None
      [] OTHER -> None

\* the schema the map holds for a node, if any
Recorded(map, col) == IF col \in DOMAIN map THEN Some(map[col]) ELSE None

\* C23: schema walk policy.  A walk that succeeds has issued one lookup for
\* every DependsOn leaf reached through Maybe, Either, Cast and BinaryOp
\* nodes, left to right, and none for Value and Unknown nodes; every row
\* found is in the map under its DependsOn value; the aggregate of a node,
\* which the map holds under the node when it is present, is the catalog row
\* for DependsOn, the inner aggregate for Maybe and Cast, the single present
\* side for Either (None when both or neither are present), and None for
\* BinaryOp, Value and Unknown.
C23_SchemaWalk ==
    (IsSome(updated) /\ updated[1].ok) =>
        /\ lookups = DependsOnPairs(pass_source[1])
        /\ DOMAIN updated[1].map \subseteq Nodes(pass_source[1])
        /\ \A node \in Nodes(pass_source[1]) :
              Recorded(updated[1].map, node) = StatedAggregate(node)

\* C23 witness: the walk of Either(DependsOn{a,c}, DependsOn{b,c}) with a
\* row for both has looked both up and recorded both, and the Either node
\* has no aggregate
C23_Witness ==
    /\ IsSome(updated)
    /\ updated[1].ok
    /\ pass_source[1] = Column_either(Column_depends_on(<<"a">>, <<"c">>),
                                      Column_depends_on(<<"b">>, <<"c">>))
    /\ Len(lookups) = 2
    /\ DOMAIN updated[1].map = {Column_depends_on(<<"a">>, <<"c">>),
                                Column_depends_on(<<"b">>, <<"c">>)}

\* the schema the passes find for the provenance: schemas.get(column)
SchemaFound == Recorded(updated[1].map, pass_source[1])

\* C24: overwrite rule of the precision passes.  The sql_type of an item
\* changes only in two ways: DecimalPrecision is registered, the type is
\* Decimal and the schema found for the provenance has numeric_precision and
\* numeric_precision_radix, and then precision and precision_radix are
\* exactly these two, never one of them alone; or TextLength is registered,
\* the type is Char or VarChar and the schema has character_maximum_length,
\* and then only length changes, to that value.  In every other case
\* sql_type is as given.
C24_OverwriteRule ==
    (IsSome(updated) /\ updated[1].ok) =>
        LET given == pass_item[1].sql_type
            left == updated[1].item.sql_type
        IN  /\ left.tag = given.tag
            /\ given.tag = "Decimal" =>
                /\ (left.precision = given.precision)
                        <=> (left.precision_radix = given.precision_radix)
                /\ left # given =>
                    /\ Registered("DecimalPrecision")
                    /\ IsSome(SchemaFound)
                    /\ IsSome(SchemaFound[1].numeric_precision)
                    /\ IsSome(SchemaFound[1].numeric_precision_radix)
                    /\ left.precision = SchemaFound[1].numeric_precision
                    /\ left.precision_radix = SchemaFound[1].numeric_precision_radix
            /\ (given.tag \in {"Char", "VarChar"} /\ left # given) =>
                    /\ Registered("TextLength")
                    /\ IsSome(SchemaFound)
                    /\ IsSome(SchemaFound[1].character_maximum_length)
                    /\ left = [given EXCEPT
                                !.length = SchemaFound[1].character_maximum_length]
            /\ given.tag \notin {"Decimal", "Char", "VarChar"} => left = given

\* C24 witness: DecimalPrecision has run on a NUMERIC item whose provenance
\* is a cast of DependsOn{a,c}, a.c having precision 8 and radix 10: both
\* fields have been set
C24_Witness ==
    /\ IsSome(updated)
    /\ updated[1].ok
    /\ Registered("DecimalPrecision")
    /\ pass_source[1] = Column_cast(Column_depends_on(<<"a">>, <<"c">>), "Text")
    /\ pass_item[1].sql_type.tag = "Decimal"
    /\ updated[1].item.sql_type.precision = Some(8)
    /\ updated[1].item.sql_type.precision_radix = Some(10)

\* the three passes, as Generate::new registers them
AllPasses == <<"ColumnNullability", "DecimalPrecision", "TextLength">>

\* C26: Maybe is semantically idempotent.  For every provenance Maybe(x),
\* catalog and item, the schema walk followed by ColumnNullability,
\* DecimalPrecision and TextLength leaves the same item for Maybe(Maybe(x))
\* as for Maybe(x), and fails for the one when it fails for the other.
C26_MaybeIdempotent ==
    (IsSome(updated) /\ passes = AllPasses /\ pass_source[1].kind = "Maybe") =>
        \A twice \in {update_with_info(pool[1], Column_maybe(pass_source[1]),
                                       pass_item[1], passes, <<>>)} :
            /\ twice.ok = updated[1].ok
            /\ twice.item = updated[1].item

\* C26 witness: Maybe(Cast(DependsOn{a,c})) on a VARCHAR item, a.c NOT NULL
\* with length 10, has been refined to nullable True and length 10
C26_Witness ==
    /\ IsSome(updated)
    /\ updated[1].ok
    /\ passes = AllPasses
    /\ pass_source[1] =
            Column_maybe(Column_cast(Column_depends_on(<<"a">>, <<"c">>), "Text"))
    /\ pass_item[1].sql_type.tag = "VarChar"
    /\ Declared(<<"a">>, <<"c">>) = "False"
    /\ updated[1].item.nullable = "True"
    /\ updated[1].item.sql_type.length = Some(10)

\* C27: soundness of a False nullability.  ColumnNullability leaves False
\* only for a provenance tree without Maybe node, Unknown node and
\* Value(Null) node, every DependsOn leaf of which has a catalog row with
\* is_nullable false.
C27_FalseIsSound ==
    (NullabilityApplied /\ updated[1].item.nullable = "False") =>
        \A node \in Nodes(pass_source[1]) :
            /\ node.kind \notin {"Maybe", "Unknown"}
            /\ node.kind = "Value" => node.value # "Null"
            /\ node.kind = "DependsOn" =>
                /\ IsSome(CatalogRow(node.table, node.column))
                /\ CatalogRow(node.table, node.column)[1].is_nullable = Some(FALSE)

\* C27 witness: DependsOn{a,c} + DependsOn{b,c}, both NOT NULL, has been
\* refined to False
C27_Witness ==
    /\ NullabilityApplied
    /\ pass_source[1].kind = "BinaryOp"
    /\ pass_source[1].left = Column_depends_on(<<"a">>, <<"c">>)
    /\ pass_source[1].right = Column_depends_on(<<"b">>, <<"c">>)
    /\ Declared(<<"a">>, <<"c">>) = "False"
    /\ Declared(<<"b">>, <<"c">>) = "False"
    /\ updated[1].item.nullable = "False"

\* C28: the nullability of an ambiguous column does not depend on candidate
\* order.  For all provenance expressions l and r and every catalog,
\* ColumnNullability gives Either(r, l) the nullability it gives
\* Either(l, r).
C28_EitherOrder ==
    (NullabilityApplied /\ pass_source[1].kind = "Either") =>
        \A swapped \in {update_with_info(pool[1],
                            Column_either(pass_source[1].right, pass_source[1].left),
                            pass_item[1], passes, <<>>)} :
            swapped.ok => swapped.item.nullable = updated[1].item.nullable

\* the orders in which the passes of a list can be registered
Orders(pass_list) ==
    {[k \in 1..Len(pass_list) |-> pass_list[order[k]]] :
        order \in {f \in [1..Len(pass_list) -> 1..Len(pass_list)] :
                        \A i, j \in 1..Len(pass_list) : f[i] = f[j] => i = j}}

\* the sql_type differs from the given one in the named fields at most
SameBut(left, given, changed) ==
    /\ DOMAIN left = DOMAIN given
    /\ \A field \in DOMAIN given \ changed : left[field] = given[field]

\* C29: frame of each built-in pass.  ColumnNullability changes only
\* nullable; DecimalPrecision and TextLength leave name and nullable and the
\* variant of sql_type, and change only precision and precision_radix of a
\* Decimal, respectively length of a Char or VarChar.  The final item is the
\* same for every registration order of the passes.
C29_PassFrames ==
    (IsSome(updated) /\ updated[1].ok) =>
        LET given == pass_item[1]
            nullability == apply("ColumnNullability", updated[1].map, pass_source[1], given)
            decimal == apply("DecimalPrecision", updated[1].map, pass_source[1], given)
            text == apply("TextLength", updated[1].map, pass_source[1], given)
        IN  /\ nullability = [given EXCEPT !.nullable = nullability.nullable]
            /\ decimal = [given EXCEPT !.sql_type = decimal.sql_type]
            /\ SameBut(decimal.sql_type, given.sql_type,
                       IF given.sql_type.tag = "Decimal"
                       THEN {"precision", "precision_radix"} ELSE {})
            /\ text = [given EXCEPT !.sql_type = text.sql_type]
            /\ SameBut(text.sql_type, given.sql_type,
                       IF given.sql_type.tag \in {"Char", "VarChar"}
                       THEN {"length"} ELSE {})
            /\ \A order \in Orders(passes) :
                  apply_all(order, updated[1].map, pass_source[1], given)
                        = updated[1].item

\* C29 witness: the three passes have run on a VARCHAR item whose provenance
\* is a cast of DependsOn{a,c}, a.c NOT NULL with length 10: nullable and
\* length have both been refined
C29_Witness ==
    /\ IsSome(updated)
    /\ updated[1].ok
    /\ passes = AllPasses
    /\ pass_source[1] = Column_cast(Column_depends_on(<<"a">>, <<"c">>), "Text")
    /\ pass_item[1].sql_type.tag = "VarChar"
    /\ updated[1].item.nullable = "False"
    /\ updated[1].item.sql_type.length = Some(10)

(***************************************************************************)
(* The resolver over every statement shape: a statement of any kind comes  *)
(* out of the SQL parser, then find_fields builds its field map or rejects *)
(* it.                                                                     *)
(***************************************************************************)
\* a RETURNING list holds at most MaxReturning items
MaxReturning == 2

\* the target of an INSERT: a table name or a table function
TableObjects ==
    {[kind |-> "TableName", name |-> <<t>>] : t \in TableIdents}
        \cup {[kind |-> "TableFunction"]}

InsertStatement(table, returning) ==
    [kind |-> "Insert", table |-> table, returning |-> returning]

UpdateStatement(table, returning) ==
    [kind |-> "Update", table |-> table, returning |-> returning]

DeleteStatement(from, returning) ==
    [kind |-> "Delete", from |-> from, returning |-> returning]

\* a query whose body is no SELECT: a set operation, a VALUES list
OtherQueryBodies == {[kind |-> "SetOperation"], [kind |-> "Values"]}

\* statements of another kind
OtherStatements == {[kind |-> "CreateTable"], [kind |-> "Drop"], [kind |-> "Truncate"]}

InitStatement ==
    /\ query = <<>>
    /\ parsed = None
    /\ prepared = None
    /\ GenerateIdle
    /\ \/ \E has \in BOOLEAN, m \in 1..MaxReturning :
            \E p \in Projections(m) :
                LET returning == IF has THEN Some(p) ELSE None
                IN  \/ \E t \in TableObjects :
                            statement = Some(InsertStatement(t, returning))
                    \/ \E t \in TablesWithJoins(1) :
                            statement = Some(UpdateStatement(t, returning))
                    \/ \E f \in FromLists(1) :
                            statement = Some(DeleteStatement(f, returning))
       \/ \E p \in Projections(1), f \in FromLists(1), with \in BOOLEAN :
                statement = Some([SelectStatement(p, f) EXCEPT !.with = with])
       \/ \E body \in OtherQueryBodies, with \in BOOLEAN :
                statement = Some([kind |-> "Query", with |-> with, body |-> body])
       \/ \E s \in OtherStatements : statement = Some(s)
    /\ fields = None
    /\ ColumnIdle
    /\ SqlTypeIdle
    /\ PassIdle
    /\ InferIdle

SpecStatement == InitStatement /\ [][NextParser]_vars

\* the names a list of items can be filed under
NamesOf(items) ==
    {OutputName(items[k]) : k \in 1..Len(items)}

\* apply_passes on the statement, no output column given
InferenceFails ==
    ~apply_passes([prepare |-> Err("unused"), catalog |-> EmptyMap],
                  Ok(<<statement[1]>>), <<>>, <<>>).ok

\* C25: supported statement shapes.  find_fields returns a field map for a
\* SELECT without WITH and for INSERT, UPDATE and DELETE (its names those of
\* the RETURNING list, empty without RETURNING); for a query with WITH and
\* an INSERT into a table function it returns UnsupportedQueryElement, for
\* a query body that is no SELECT and any other statement kind
\* UnsupportedStatement, and the inference fails.
C25_StatementShapes ==
    IsSome(fields) =>
        LET stmt == statement[1]
            found == fields[1]
            Rejected(kind) ==
                /\ ~found.ok
                /\ found.error.kind = kind
                /\ InferenceFails
            Returned ==
                /\ found.ok
                /\ ~InferenceFails
                /\ IF IsSome(stmt.returning)
                   THEN DOMAIN found.value \subseteq NamesOf(stmt.returning[1])
                   ELSE found.value = EmptyMap
        IN  CASE stmt.kind = "Query" /\ stmt.with -> Rejected("UnsupportedQueryElement")
              [] stmt.kind = "Query" /\ stmt.body.kind # "Select" ->
                    Rejected("UnsupportedStatement")
              [] stmt.kind = "Query" -> found.ok /\ ~InferenceFails
              [] stmt.kind = "Insert" /\ stmt.table.kind = "TableFunction" ->
                    Rejected("UnsupportedQueryElement")
              [] stmt.kind \in {"Insert", "Update", "Delete"} -> Returned
              [] OTHER -> Rejected("UnsupportedStatement")

\* C25 witness: `insert into a ... returning c` has the field c, which
\* depends on a.c
C25_Witness ==
    /\ IsSome(fields)
    /\ statement[1] =
            InsertStatement([kind |-> "TableName", name |-> <<Ident(<<"a">>)>>],
                            Some(<<[kind |-> "UnnamedExpr",
                                    expr |-> Identifier(Ident(<<"c">>))]>>))
    /\ fields[1].ok
    /\ DOMAIN fields[1].value = {<<"c">>}
    /\ fields[1].value[<<"c">>] = Column_depends_on(<<"a">>, <<"c">>)

(***************************************************************************)
(* Properties of check_statement over duplicate output names               *)
(***************************************************************************)
\* the name a projected item is filed under, if it has one
ItemName(sel_item) ==
    CASE sel_item.kind = "ExprWithAlias" -> Some(sel_item.alias.value)
      [] sel_item.kind = "UnnamedExpr"
            /\ sel_item.expr.kind \in {"Identifier", "CompoundIdentifier"} ->
            Some(OutputName(sel_item))
      [] OTHER -> None

\* the positions of the projected items filed under a name
ItemsNamed(projection, name) ==
    {k \in 1..Len(projection) : ItemName(projection[k]) = Some(name)}

Last(positions) == CHOOSE k \in positions : \A j \in positions : j <= k

\* C30: duplicate output names.  When two or more projected items have the
\* same output name, the field map has one entry for the name, the
\* provenance of the last such item in projection order, and every output
\* column of that name is refined with that provenance; the field map never
\* has more entries than there are named projected items.
C30_DuplicateNames ==
    (PassesReached /\ IsSelect) =>
        \A field_map \in {FieldMap}, tables \in {identify_tables(Stmt.body.from)} :
            LET projection == Stmt.body.projection
                names == {ItemName(projection[k])[1] :
                            k \in {j \in 1..Len(projection) :
                                        IsSome(ItemName(projection[j]))}}
            IN  /\ \A name \in names :
                      Cardinality(ItemsNamed(projection, name)) >= 2 =>
                        /\ name \in DOMAIN field_map
                        /\ Some(field_map[name]) =
                             find_field_in_expr(
                                projection[Last(ItemsNamed(projection, name))].expr,
                                tables)
                        /\ query_types[1].ok =>
                             \A k \in 1..Len(Built) :
                                Built[k].name = name =>
                                    Output[k] = update_with_info(pool[1], field_map[name],
                                                    Built[k], passes, <<>>).item
                /\ Cardinality(DOMAIN field_map)
                      <= Cardinality({k \in 1..Len(projection) :
                                        IsSome(ItemName(projection[k]))})

====
